---- MODULE Spec2Model ----
(***************************************************************************)
(* Clinic patient-flow simulation: the continuously stepped engine         *)
(* (RealtimeEngine, src/utils/math.ts) and the discrete-event batch engine *)
(* (ClinicSimulation, src/unnamed/part_001).                               *)
(*                                                                         *)
(* Numbers.  Simulated time is counted in ticks of 0.1 minute, so that the *)
(* engine's own constants are whole numbers: the 0.1 minute service floor  *)
(* and forced arrival step are 1 tick, the 5 minute history cadence is 50  *)
(* ticks, the walking speed of 30 grid units per minute is 3 units per     *)
(* tick.  Floating point rounding is not modelled: arithmetic is exact.    *)
(*                                                                         *)
(* Randomness.  Math.random() is a nondeterministic draw u = k / UDen with *)
(* k in 0 .. UDen-1 (so u = 0 is possible and u = 1 is not, as in the      *)
(* source); -ln(1-U) is a draw from NegLnDraws; the Box-Muller deviate z   *)
(* is a draw from ZDraws.  An operator that draws returns the SET of the   *)
(* states (or values) it can produce.                                      *)
(***************************************************************************)
EXTENDS Integers, Sequences, FiniteSets, TLC

VARIABLES
    \* ---- RealtimeEngine (continuous engine) ----
    config,              \* RealtimeEngine.config
    state,               \* RealtimeEngine.state: time, patients, rooms, history, stats
    nextArrival,         \* RealtimeEngine.nextArrival
    patientCounter,      \* RealtimeEngine.patientCounter
    lastHistoryCapture,  \* RealtimeEngine.lastHistoryCapture
    \* ---- history variables of the continuous engine (observers, not program state)
    enqueued,            \* per room id: every agent id ever appended to its queue, in order
    admitted,            \* per room id: every agent id ever admitted to service, in order
    created,             \* per patient type: number of agents spawned so far
    spawnedNow,          \* joint arrivals spawned by the latest update call
    instantsNow,         \* sampled arrival instants <= clock met by the latest update call
    lastDt,              \* the dt of the latest update call
    calls,               \* update calls so far: 0, 1, or 2 for "two or more"
    journey,             \* per agent id: its type, the stations that served it, in
                         \* order, and how often it was counted as finished
    skipped,             \* did the latest call return normally after a queue lookup
                         \* for a WAITING agent found no room?
    twin                 \* a second RealtimeEngine object with its own configuration,
                         \* or NoTwin where the run has only one engine

rtVars == <<config, state, nextArrival, patientCounter, lastHistoryCapture,
            enqueued, admitted, created, spawnedNow, instantsNow, lastDt, calls,
            journey, skipped, twin>>

\* ---- ClinicSimulation (batch engine) ----
VARIABLES
    simConfig,     \* ClinicSimulation.config
    currentTime,   \* ClinicSimulation.currentTime
    events,        \* ClinicSimulation.events
    patients,      \* ClinicSimulation.patients: Map from patient key to PatientMetrics
    resources,     \* the Resource fields stdReception, stdDoctor, aiKiosks, aiNurses, aiDoctor
    runPc,         \* where run() is: "arrivals" (loop 1), "events" (loop 2), "done" (returned)
    t,             \* run(): local t
    pId,           \* run(): local pId
    result,        \* what run() returned (NULL until it returns)
    \* ---- history variables of the batch engine
    seizeLog,      \* every seize call so far, in order: arguments, resource before and after, result
    prevTime       \* currentTime before the latest event was taken

simVars == <<simConfig, currentTime, events, patients, resources, runPc, t, pId,
             result, seizeLog, prevTime>>

vars == <<rtVars, simVars>>

----------------------------------------------------------------------------
(* Bounds of the model *)

\* Updates are only taken while the advanced clock stays <= MaxTime ticks.
MaxTime == 56

\* Direct seize calls made on each of two resource copies.
MaxSeizes == 4

\* The latest clock value of a run that goes on until the clinic is empty.
DrainTime == 2 * MaxTime

(* Program constants, in ticks and grid units *)

speed == 3
SafetyStep == 1
MinDuration == 1
HistoryInterval == 50
QueueCapacity == 999

NULL == "null"
\* exitTime: number | null is a sequence: <<>> for null, <<time>> for a time
NoExit == <<>>

NoTwin == <<>>

\* Math.random(): the draw u = k / UDen for k in UDraws, a grid on [0, 1).
UDraws == {0, 1}
UDen == Cardinality(UDraws)
\* Values of -ln(1 - U), U uniform in [0, 1): 0 (U = 0) and some positive ones.
NegLnDraws == {0, 1, 4}
\* The same for the batch engine's arrival stream: with positive gaps only, the
\* stream is finite by the loop's own condition (t < durationMinutes).
StreamNegLnDraws == NegLnDraws \ {0}
\* Values of the standard normal deviate sqrt(-2 ln u) cos(2 pi v).
ZDraws == {-6, 0, 1}
\* Time deltas (ticks) the host passes to update.
DtSet == {0, 7}

Max2(a, b) == IF a >= b THEN a ELSE b
Min2(a, b) == IF a <= b THEN a ELSE b

RECURSIVE Isqrt(_)
\* floor of the square root (Math.sqrt, rounded down to the tick)
Isqrt(n) ==
    IF n < 2 THEN n
    ELSE LET s == 2 * Isqrt(n \div 4)
         IN  IF (s + 1) * (s + 1) <= n THEN s + 1 ELSE s

Contains(seq, x) == \E i \in DOMAIN seq : seq[i] = x

RECURSIVE Remove(_, _)
\* Array.prototype.filter(id => id !== x)
Remove(seq, x) ==
    IF seq = <<>> THEN <<>>
    ELSE IF Head(seq) = x THEN Remove(Tail(seq), x)
         ELSE <<Head(seq)>> \o Remove(Tail(seq), x)

\* Array.prototype.splice(i, 1)
Splice(seq, i) == SubSeq(seq, 1, i - 1) \o SubSeq(seq, i + 1, Len(seq))

----------------------------------------------------------------------------
(* Variate generators *)

\* randomExponential(rate) = -ln(1 - U) / rate; rate is the fraction num/den
\* and negLn the drawn value of -ln(1 - U).
randomExponential(negLn, rate) == (negLn * rate.den) \div rate.num

\* u < f with f = (mode - min) / (max - min), for u = k / UDen; a zero
\* denominator gives f = +Infinity (mode > min), -Infinity or NaN.
BelowF(k, min, mode, max) ==
    IF max > min THEN k * (max - min) < UDen * (mode - min)
    ELSE IF max < min THEN k * (max - min) > UDen * (mode - min)
    ELSE mode > min

\* randomTriangular(min, mode, max) for the draw u = k / UDen
randomTriangular(k, min, mode, max) ==
    IF BelowF(k, min, mode, max)
    THEN min + Isqrt((k * (max - min) * (mode - min)) \div UDen)
    ELSE max - Isqrt(((UDen - k) * (max - min) * (max - mode)) \div UDen)

\* The arguments of one randomTriangular call
Triangle(min, mode, max) == [min |-> min, mode |-> mode, max |-> max]

\* randomTriangular(tr.min, tr.mode, tr.max): the values it can return
triangular(tr) == { randomTriangular(k, tr.min, tr.mode, tr.max) : k \in UDraws }

\* randomNormal(mean, stdDev) for the Box-Muller deviate z
randomNormal(z, mean, stdDev) == Max2(0, mean + z * stdDev)

----------------------------------------------------------------------------
(* Continuous engine: layout, rooms *)

PatientTypes == {"STANDARD", "AI_WALK_IN", "AI_DIGITAL"}

Pt(px, py) == [x |-> px, y |-> py]

POS == [ STD_ENTRY           |-> Pt(5, 20),
         STD_CHECKIN_WAIT    |-> Pt(20, 20),
         STD_RECEPTION       |-> Pt(40, 20),
         STD_MAIN_WAIT       |-> Pt(60, 20),
         STD_DOCTOR          |-> Pt(80, 20),
         STD_EXIT            |-> Pt(95, 20),
         AI_ENTRY            |-> Pt(5, 70),
         AI_KIOSK            |-> Pt(20, 60),
         AI_WAITING          |-> Pt(35, 70),
         AI_TRIAGE           |-> Pt(50, 70),
         AI_POST_TRIAGE_WAIT |-> Pt(68, 70),
         AI_DOCTOR           |-> Pt(85, 70),
         AI_EXIT             |-> Pt(95, 70) ]

\* dx*dx + dy*dy
Dist2(p, q) == (q.x - p.x) * (q.x - p.x) + (q.y - p.y) * (q.y - p.y)

Room(rid, rtype, cap, staff, pos) ==
    [ id |-> rid, type |-> rtype, capacity |-> cap, staffCount |-> staff,
      staffBusy |-> 0, occupants |-> <<>>, queue |-> <<>>, position |-> pos ]

initializeRooms(cfg) ==
    << Room("std_checkin_wait", "QUEUE", QueueCapacity, 0, POS.STD_CHECKIN_WAIT),
       Room("std_reception", "SERVICE", cfg.numStdReceptionists, cfg.numStdReceptionists, POS.STD_RECEPTION),
       Room("std_main_wait", "QUEUE", QueueCapacity, 0, POS.STD_MAIN_WAIT),
       Room("std_doctor", "SERVICE", cfg.numStdDoctors, cfg.numStdDoctors, POS.STD_DOCTOR),
       Room("ai_kiosk", "SERVICE", cfg.numKiosks, cfg.numKiosks, POS.AI_KIOSK),
       Room("ai_waiting", "QUEUE", QueueCapacity, 0, POS.AI_WAITING),
       Room("ai_triage", "SERVICE", cfg.numNurses, cfg.numNurses, POS.AI_TRIAGE),
       Room("ai_post_triage_wait", "QUEUE", QueueCapacity, 0, POS.AI_POST_TRIAGE_WAIT),
       Room("ai_doctor", "SERVICE", cfg.numAiDoctors, cfg.numAiDoctors, POS.AI_DOCTOR) >>

RoomIds == { "std_checkin_wait", "std_reception", "std_main_wait", "std_doctor",
             "ai_kiosk", "ai_waiting", "ai_triage", "ai_post_triage_wait", "ai_doctor" }

\* rooms.find(r => r.id === id): the index of the first room with that id
getRoom(rooms, id) ==
    CHOOSE i \in DOMAIN rooms :
        rooms[i].id = id /\ \A j \in 1 .. (i - 1) : rooms[j].id # id

----------------------------------------------------------------------------
(* Continuous engine: operations.  `self` is the engine object: a record   *)
(* of the engine's fields (and of the history variables that observe it).  *)

\* addToQueue with unshift in place of push: the newcomer goes to the front
addToQueueFront(self, roomId, agentId) ==
    LET r == getRoom(self.state.rooms, roomId)
    IN  [self EXCEPT !.state.rooms[r].queue = <<agentId>> \o @,
                     !.enqueued[roomId] = Append(@, agentId)]

\* addToQueue(roomId, agentId): room.queue.push(agentId)
addToQueue(self, roomId, agentId) ==
    LET r == getRoom(self.state.rooms, roomId)
    IN  [self EXCEPT !.state.rooms[r].queue = Append(@, agentId),
                     !.enqueued[roomId] = Append(@, agentId)]

\* the test with <= in place of <
isDigitalDrawInclusive(k, rate) == k <= rate

\* Math.random() < digitalAdoptionRate, for the draw k / UDen and the rate in
\* UDen-ths
isDigitalDraw(k, rate) == k < rate

\* spawnPatient that advances patientCounter for AI patients only, so that the
\* two patients of a joint arrival get the same id
spawnPatientSharedId(self, type) ==
    LET startPos == IF type = "STANDARD" THEN POS.STD_ENTRY ELSE POS.AI_ENTRY
        queued == IF type = "STANDARD"
                  THEN addToQueue(self, "std_reception", self.patientCounter)
                  ELSE IF type = "AI_WALK_IN"
                  THEN addToQueue(self, "ai_kiosk", self.patientCounter)
                  ELSE addToQueue(self, "ai_triage", self.patientCounter)
        targetPos == IF type = "STANDARD" THEN POS.STD_CHECKIN_WAIT
                     ELSE IF type = "AI_WALK_IN" THEN POS.AI_KIOSK
                     ELSE POS.AI_WAITING
        agent == [ id |-> self.patientCounter,
                   type |-> type,
                   state |-> "MOVING",
                   position |-> [base |-> startPos, moved |-> 0],
                   targetPosition |-> targetPos,
                   currentRoomId |-> NULL,
                   processingSince |-> 0,
                   processingDuration |-> 0,
                   totalWaitTime |-> 0 ]
    IN  [queued EXCEPT !.patientCounter = IF type = "STANDARD" THEN @ ELSE @ + 1,
                       !.state.patients = Append(@, agent),
                       !.created[type] = @ + 1,
                       !.journey = Append(@, [type |-> type, served |-> <<>>, finished |-> 0])]

\* spawnPatient(type)
spawnPatient(self, type) ==
    LET startPos == IF type = "STANDARD" THEN POS.STD_ENTRY ELSE POS.AI_ENTRY
        queued == IF type = "STANDARD"
                  THEN addToQueue(self, "std_reception", self.patientCounter)
                  ELSE IF type = "AI_WALK_IN"
                  THEN addToQueue(self, "ai_kiosk", self.patientCounter)
                  ELSE addToQueue(self, "ai_triage", self.patientCounter)
        targetPos == IF type = "STANDARD" THEN POS.STD_CHECKIN_WAIT
                     ELSE IF type = "AI_WALK_IN" THEN POS.AI_KIOSK
                     ELSE POS.AI_WAITING
        agent == [ id |-> self.patientCounter,
                   type |-> type,
                   state |-> "MOVING",
                   position |-> [base |-> startPos, moved |-> 0],
                   targetPosition |-> targetPos,
                   currentRoomId |-> NULL,
                   processingSince |-> 0,
                   processingDuration |-> 0,
                   totalWaitTime |-> 0 ]
    IN  [queued EXCEPT !.patientCounter = @ + 1,
                       !.state.patients = Append(@, agent),
                       !.created[type] = @ + 1,
                       !.journey = Append(@, [type |-> type, served |-> <<>>, finished |-> 0])]

\* spawnJoint without the safety break
spawnJointUnguarded(self, k, negLn) ==
    LET s1 == spawnPatient(self, "STANDARD")
        isDigital == isDigitalDraw(k, self.config.digitalAdoptionRate)
        s2 == spawnPatient(s1, IF isDigital THEN "AI_DIGITAL" ELSE "AI_WALK_IN")
        next == s2.nextArrival
                + randomExponential(negLn, [num |-> 1, den |-> self.config.avgArrivalInterval])
    IN  [s2 EXCEPT !.nextArrival = next,
                   !.spawnedNow = @ + 1,
                   !.instantsNow = @ + 1]

\* spawnJoint that spawns the AI patient only on a digital draw
spawnJointDigitalOnly(self, k, negLn) ==
    LET s1 == spawnPatient(self, "STANDARD")
        isDigital == isDigitalDraw(k, self.config.digitalAdoptionRate)
        s2 == IF isDigital THEN spawnPatient(s1, "AI_DIGITAL") ELSE s1
        next == s2.nextArrival
                + randomExponential(negLn, [num |-> 1, den |-> self.config.avgArrivalInterval])
        stuck == next <= s2.state.time
    IN  [s2 EXCEPT !.nextArrival = IF stuck THEN s2.state.time + SafetyStep ELSE next,
                   !.spawnedNow = @ + 1,
                   !.instantsNow = @ + (IF stuck THEN 2 ELSE 1)]

\* One pass through the body of handleSpawning's while loop, for the draws
\* u = k / UDen (digital or walk-in) and negLn (the next gap).
spawnJoint(self, k, negLn) ==
    LET s1 == spawnPatient(self, "STANDARD")
        isDigital == isDigitalDraw(k, self.config.digitalAdoptionRate)
        s2 == spawnPatient(s1, IF isDigital THEN "AI_DIGITAL" ELSE "AI_WALK_IN")
        next == s2.nextArrival
                + randomExponential(negLn, [num |-> 1, den |-> self.config.avgArrivalInterval])
        stuck == next <= s2.state.time
    IN  [s2 EXCEPT !.nextArrival = IF stuck THEN s2.state.time + SafetyStep ELSE next,
                   !.spawnedNow = @ + 1,
                   !.instantsNow = @ + (IF stuck THEN 2 ELSE 1)]

RECURSIVE handleSpawningPastHorizon(_)
\* handleSpawning without the test time < durationMinutes
handleSpawningPastHorizon(self) ==
    IF self.state.time >= self.nextArrival
    THEN UNION { handleSpawningPastHorizon(s) :
                     s \in { spawnJoint(self, k, negLn) :
                                k \in UDraws, negLn \in NegLnDraws } }
    ELSE {self}

RECURSIVE handleSpawning(_)
\* handleSpawning(): while (time >= nextArrival && time < durationMinutes) ...
handleSpawning(self) ==
    IF self.state.time >= self.nextArrival /\ self.state.time < self.config.durationMinutes
    THEN UNION { handleSpawning(s) :
                     s \in { spawnJoint(self, k, negLn) :
                                k \in UDraws, negLn \in NegLnDraws } }
    ELSE {self}

safeMin(val) == Max2(MinDuration, val)

\* getDuration: the rooms whose duration is drawn from randomTriangular
TriangularRooms == {"std_reception", "std_doctor", "ai_kiosk", "ai_doctor"}

\* getDuration: the configured mean the case of roomId reads
configuredMean(cfg, roomId) ==
    CASE roomId = "std_reception" -> cfg.stdReceptionTimeAvg
      [] roomId = "std_doctor"    -> cfg.standardDoctorTimeAvg
      [] roomId = "ai_kiosk"      -> cfg.aiKioskTimeAvg
      [] roomId = "ai_triage"     -> cfg.aiTriageTimeAvg
      [] roomId = "ai_doctor"     -> cfg.aiDoctorTimeAvg

\* getDuration: randomTriangular(safeMin(avg * 0.5), avg, avg * 1.5)
triangleAround(avg) == Triangle(safeMin((avg * 5) \div 10), avg, (avg * 15) \div 10)

\* getDuration that ignores the configuration and always takes the default
getDurationDefault(self, roomId) == {10}

\* getDuration(roomId): the durations it can return.  The room id and the
\* mean are bound once, as the code reads each of them once per call.
getDuration(self, roomId) ==
    UNION { IF rid \in TriangularRooms
            THEN UNION { triangular(tr) :
                         tr \in {triangleAround(configuredMean(self.config, rid))} }
            ELSE IF rid = "ai_triage"
            THEN { Max2(MinDuration,
                        randomNormal(z, self.config.aiTriageTimeAvg,
                                     (self.config.aiTriageTimeAvg * 2) \div 10)) :
                     z \in ZDraws }
            ELSE {10} :
            rid \in {roomId} }

\* moveAgent without the exit tests: an arriving agent always becomes WAITING
moveAgentAlwaysWaiting(self, i, dt) ==
    LET agent == self.state.patients[i]
        reach == agent.position.moved + speed * dt
    IN  IF Dist2(agent.position.base, agent.targetPosition) <= reach * reach
        THEN [self EXCEPT
                 !.state.patients[i].position = [base |-> agent.targetPosition, moved |-> 0],
                 !.state.patients[i].state = "WAITING"]
        ELSE [self EXCEPT !.state.patients[i].position.moved = reach]

\* moveAgent(agent, dt).  The agent walks the straight segment from
\* position.base to targetPosition and has covered position.moved of it:
\* dist = |target - base| - moved, so dist <= speed*dt iff
\* |target - base|^2 <= (moved + speed*dt)^2.
moveAgent(self, i, dt) ==
    LET agent == self.state.patients[i]
        reach == agent.position.moved + speed * dt
    IN  IF Dist2(agent.position.base, agent.targetPosition) <= reach * reach
        THEN [self EXCEPT
                 !.state.patients[i].position = [base |-> agent.targetPosition, moved |-> 0],
                 !.state.patients[i].state =
                     IF agent.targetPosition = POS.STD_EXIT THEN "COMPLETED"
                     ELSE IF agent.targetPosition = POS.AI_EXIT THEN "COMPLETED"
                     ELSE "WAITING"]
        ELSE [self EXCEPT !.state.patients[i].position.moved = reach]

\* routeNext that sends an agent leaving the kiosk straight to the AI doctor
routeNextSkippingTriage(self, i, currentRoomId) ==
    LET id == self.state.patients[i].id
        s1 == [self EXCEPT !.state.patients[i].currentRoomId = NULL,
                           !.state.patients[i].state = "MOVING"]
        to(s, pos) == [s EXCEPT !.state.patients[i].targetPosition = pos]
    IN  CASE currentRoomId = "std_reception" ->
                to(addToQueue(s1, "std_doctor", id), POS.STD_MAIN_WAIT)
          [] currentRoomId = "std_doctor" -> to(s1, POS.STD_EXIT)
          [] currentRoomId = "ai_kiosk" ->
                to(addToQueue(s1, "ai_doctor", id), POS.AI_POST_TRIAGE_WAIT)
          [] currentRoomId = "ai_triage" ->
                to(addToQueue(s1, "ai_doctor", id), POS.AI_POST_TRIAGE_WAIT)
          [] currentRoomId = "ai_doctor" -> to(s1, POS.AI_EXIT)
          [] OTHER -> s1

\* routeNext(agent, currentRoomId)
routeNext(self, i, currentRoomId) ==
    LET id == self.state.patients[i].id
        s1 == [self EXCEPT !.state.patients[i].currentRoomId = NULL,
                           !.state.patients[i].state = "MOVING"]
        to(s, pos) == [s EXCEPT !.state.patients[i].targetPosition = pos]
    IN  CASE currentRoomId = "std_reception" ->
                to(addToQueue(s1, "std_doctor", id), POS.STD_MAIN_WAIT)
          [] currentRoomId = "std_doctor" -> to(s1, POS.STD_EXIT)
          [] currentRoomId = "ai_kiosk" ->
                to(addToQueue(s1, "ai_triage", id), POS.AI_WAITING)
          [] currentRoomId = "ai_triage" ->
                to(addToQueue(s1, "ai_doctor", id), POS.AI_POST_TRIAGE_WAIT)
          [] currentRoomId = "ai_doctor" -> to(s1, POS.AI_EXIT)
          [] OTHER -> s1

\* enterRoom without queue.shift(): the admitted agent stays in the queue
enterRoomKeepingQueue(self, i, r, duration) ==
    LET agent == self.state.patients[i]
        room == self.state.rooms[r]
    IN  [self EXCEPT !.state.rooms[r].staffBusy = @ + 1,
                     !.state.rooms[r].occupants = Append(@, agent.id),
                     !.state.patients[i].state = "PROCESSING",
                     !.state.patients[i].currentRoomId = room.id,
                     !.state.patients[i].position = [base |-> room.position, moved |-> 0],
                     !.state.patients[i].processingSince = self.state.time,
                     !.state.patients[i].processingDuration = duration,
                     !.admitted[room.id] = Append(@, agent.id),
                     !.journey[agent.id].served = Append(@, room.id)]

\* updateAgent, WAITING branch, "ENTER ROOM": room r admits agent i for `duration`
enterRoom(self, i, r, duration) ==
    LET agent == self.state.patients[i]
        room == self.state.rooms[r]
    IN  [self EXCEPT !.state.rooms[r].queue = Tail(@),
                     !.state.rooms[r].staffBusy = @ + 1,
                     !.state.rooms[r].occupants = Append(@, agent.id),
                     !.state.patients[i].state = "PROCESSING",
                     !.state.patients[i].currentRoomId = room.id,
                     !.state.patients[i].position = [base |-> room.position, moved |-> 0],
                     !.state.patients[i].processingSince = self.state.time,
                     !.state.patients[i].processingDuration = duration,
                     !.admitted[room.id] = Append(@, agent.id),
                     !.journey[agent.id].served = Append(@, room.id)]

\* canEnter without the test staffBusy < capacity
canEnterIgnoringCapacity(room, id) == room.queue[1] = id

\* updateAgent, WAITING branch: may agent `id` enter `room` now?
canEnter(room, id) == room.queue[1] = id /\ room.staffBusy < room.capacity

\* serviceDone without the duration: time >= processingSince
serviceDoneIgnoringDuration(now, agent) == now >= agent.processingSince

\* updateAgent, PROCESSING branch: time >= processingSince + processingDuration
serviceDone(now, agent) == now >= agent.processingSince + agent.processingDuration

\* leaveRoom that routes the agent on without freeing the staff member
leaveRoomKeepingStaff(self, i) ==
    LET agent == self.state.patients[i]
        r == getRoom(self.state.rooms, agent.currentRoomId)
        rid == self.state.rooms[r].id
        s1 == [self EXCEPT !.state.rooms[r].occupants = Remove(@, agent.id)]
    IN  routeNext(s1, i, rid)

\* leaveRoom with the two handled counters of the standard clinic swapped
leaveRoomCountersSwapped(self, i) ==
    LET agent == self.state.patients[i]
        r == getRoom(self.state.rooms, agent.currentRoomId)
        rid == self.state.rooms[r].id
        inc(b) == IF b THEN 1 ELSE 0
        s1 == [self EXCEPT
                 !.state.rooms[r].staffBusy = @ - 1,
                 !.state.rooms[r].occupants = Remove(@, agent.id),
                 !.state.stats.stdReceptionHandled = @ + inc(rid = "std_doctor"),
                 !.state.stats.stdDoctorHandled = @ + inc(rid = "std_reception"),
                 !.state.stats.aiKioskHandled = @ + inc(rid = "ai_kiosk"),
                 !.state.stats.aiTriageHandled = @ + inc(rid = "ai_triage"),
                 !.state.stats.aiDoctorHandled = @ + inc(rid = "ai_doctor")]
    IN  routeNext(s1, i, rid)

\* updateAgent, PROCESSING branch, "FINISHED PROCESSING"
leaveRoom(self, i) ==
    LET agent == self.state.patients[i]
        r == getRoom(self.state.rooms, agent.currentRoomId)
        rid == self.state.rooms[r].id
        inc(b) == IF b THEN 1 ELSE 0
        s1 == [self EXCEPT
                 !.state.rooms[r].staffBusy = @ - 1,
                 !.state.rooms[r].occupants = Remove(@, agent.id),
                 !.state.stats.stdReceptionHandled = @ + inc(rid = "std_reception"),
                 !.state.stats.stdDoctorHandled = @ + inc(rid = "std_doctor"),
                 !.state.stats.aiKioskHandled = @ + inc(rid = "ai_kiosk"),
                 !.state.stats.aiTriageHandled = @ + inc(rid = "ai_triage"),
                 !.state.stats.aiDoctorHandled = @ + inc(rid = "ai_doctor")]
    IN  routeNext(s1, i, rid)

\* updateAgent whose PROCESSING branch routes the agent on without the room's
\* bookkeeping
updateAgentWithoutRelease(self, i, dt) ==
    LET agent == self.state.patients[i]
        rooms == self.state.rooms
    IN  CASE agent.state = "MOVING" -> {moveAgent(self, i, dt)}
          [] agent.state = "WAITING" ->
                LET s1 == [self EXCEPT !.state.patients[i].totalWaitTime = @ + dt]
                    found == {r \in DOMAIN rooms : Contains(rooms[r].queue, agent.id)}
                IN  IF found = {} THEN {[s1 EXCEPT !.skipped = TRUE]}
                    ELSE LET r == CHOOSE x \in found : \A y \in found : x <= y
                         IN  IF canEnter(rooms[r], agent.id)
                             THEN {enterRoom(s1, i, r, d) : d \in getDuration(self, rooms[r].id)}
                             ELSE {s1}
          [] agent.state = "PROCESSING" ->
                IF serviceDone(self.state.time, agent)
                THEN {routeNext(self, i, agent.currentRoomId)}
                ELSE {self}
          [] OTHER -> {self}

\* updateAgent(agent, dt): the states it can leave the engine in
updateAgent(self, i, dt) ==
    LET agent == self.state.patients[i]
        rooms == self.state.rooms
    IN  CASE agent.state = "MOVING" -> {moveAgent(self, i, dt)}
          [] agent.state = "WAITING" ->
                LET s1 == [self EXCEPT !.state.patients[i].totalWaitTime = @ + dt]
                    found == {r \in DOMAIN rooms : Contains(rooms[r].queue, agent.id)}
                IN  IF found = {} THEN {[s1 EXCEPT !.skipped = TRUE]}
                    ELSE LET r == CHOOSE x \in found : \A y \in found : x <= y
                         IN  IF canEnter(rooms[r], agent.id)
                             THEN {enterRoom(s1, i, r, d) : d \in getDuration(self, rooms[r].id)}
                             ELSE {s1}
          [] agent.state = "PROCESSING" ->
                IF serviceDone(self.state.time, agent)
                THEN {leaveRoom(self, i)}
                ELSE {self}
          [] OTHER -> {self}

\* reapCompleted without the splice: the COMPLETED agent is counted and kept
reapCompletedKeepingAgent(self, i) ==
    LET p == self.state.patients[i]
    IN  IF p.state = "COMPLETED"
        THEN IF p.type = "STANDARD"
             THEN [self EXCEPT !.state.stats.stdFinished = @ + 1,
                               !.journey[p.id].finished = @ + 1]
             ELSE [self EXCEPT !.state.stats.aiFinished = @ + 1,
                               !.journey[p.id].finished = @ + 1]
        ELSE self

\* update, step 2, after updateAgent: a COMPLETED agent is counted and spliced out
reapCompleted(self, i) ==
    LET p == self.state.patients[i]
    IN  IF p.state = "COMPLETED"
        THEN IF p.type = "STANDARD"
             THEN [self EXCEPT !.state.stats.stdFinished = @ + 1,
                               !.state.patients = Splice(@, i),
                               !.journey[p.id].finished = @ + 1]
             ELSE [self EXCEPT !.state.stats.aiFinished = @ + 1,
                               !.state.patients = Splice(@, i),
                               !.journey[p.id].finished = @ + 1]
        ELSE self

RECURSIVE updateAgentsTwice(_, _, _)
\* the loop of update, step 2, with updateAgent called twice on every agent
updateAgentsTwice(self, i, dt) ==
    IF i < 1 THEN {self}
    ELSE UNION { updateAgentsTwice(s2, i - 1, dt) :
                     s2 \in { reapCompleted(s, i) :
                                s \in UNION { updateAgent(s1, i, dt) :
                                                s1 \in updateAgent(self, i, dt) } } }

RECURSIVE updateAgents(_, _, _)
\* update, step 2: for (i = patients.length - 1; i >= 0; i--) ...
updateAgents(self, i, dt) ==
    IF i < 1 THEN {self}
    ELSE UNION { updateAgents(s2, i - 1, dt) :
                     s2 \in { reapCompleted(s, i) : s \in updateAgent(self, i, dt) } }

\* captureHistory that keeps only the new snapshot
captureHistoryOverwriting(self) ==
    [self EXCEPT !.state.history =
        << [ time |-> self.state.time \div 10,
             stdDoctorTotal |-> self.state.stats.stdDoctorHandled,
             aiDoctorTotal |-> self.state.stats.aiDoctorHandled,
             stdIntakeTotal |-> self.state.stats.stdReceptionHandled,
             aiIntakeTotal |-> self.state.stats.aiTriageHandled ] >>]

\* captureHistory(); snapshot times are whole minutes (Math.floor(time))
captureHistory(self) ==
    [self EXCEPT !.state.history = Append(@,
        [ time |-> self.state.time \div 10,
          stdDoctorTotal |-> self.state.stats.stdDoctorHandled,
          aiDoctorTotal |-> self.state.stats.aiDoctorHandled,
          stdIntakeTotal |-> self.state.stats.stdReceptionHandled,
          aiIntakeTotal |-> self.state.stats.aiTriageHandled ])]

\* accountAndCapture that adds the whole dt whenever any doctor is busy
accountAndCaptureWholeDt(self, dt) ==
    LET stdDoc == self.state.rooms[getRoom(self.state.rooms, "std_doctor")]
        aiDoc == self.state.rooms[getRoom(self.state.rooms, "ai_doctor")]
        s1 == [self EXCEPT
                 !.state.stats.stdDoctorBusyTime =
                     IF stdDoc.staffBusy > 0 THEN @ + dt * stdDoc.capacity ELSE @,
                 !.state.stats.aiDoctorBusyTime =
                     IF aiDoc.staffBusy > 0 THEN @ + dt * aiDoc.capacity ELSE @]
    IN  IF s1.state.time - s1.lastHistoryCapture >= HistoryInterval
        THEN [captureHistory(s1) EXCEPT !.lastHistoryCapture = s1.state.time]
        ELSE s1

\* update, steps 3 and 4.  The busy-time accumulators hold capacity times the
\* source's value: dt * (staffBusy / capacity) is kept as dt * staffBusy.
accountAndCapture(self, dt) ==
    LET stdDoc == self.state.rooms[getRoom(self.state.rooms, "std_doctor")]
        aiDoc == self.state.rooms[getRoom(self.state.rooms, "ai_doctor")]
        s1 == [self EXCEPT
                 !.state.stats.stdDoctorBusyTime =
                     IF stdDoc.staffBusy > 0 THEN @ + dt * stdDoc.staffBusy ELSE @,
                 !.state.stats.aiDoctorBusyTime =
                     IF aiDoc.staffBusy > 0 THEN @ + dt * aiDoc.staffBusy ELSE @]
    IN  IF s1.state.time - s1.lastHistoryCapture >= HistoryInterval
        THEN [captureHistory(s1) EXCEPT !.lastHistoryCapture = s1.state.time]
        ELSE s1

\* update(dtMinutes): the states one call can leave the engine in
update(self, dt) ==
    { accountAndCapture(s2, dt) :
        s2 \in UNION { updateAgents(s1, Len(s1.state.patients), dt) :
                         s1 \in UNION { handleSpawning(s0) :
                                          s0 \in { [self EXCEPT !.state.time = @ + dt,
                                                                !.spawnedNow = 0,
                                                                !.instantsNow = 0,
                                                                !.skipped = FALSE] } } } }

----------------------------------------------------------------------------
(* Continuous engine: the state machine *)

\* Configurations the engine is constructed with (times in ticks,
\* digitalAdoptionRate in UDen-ths).
Configs ==
    { [ durationMinutes |-> 10, avgArrivalInterval |-> 3,
        numStdReceptionists |-> c.r, numStdDoctors |-> c.d,
        stdReceptionTimeAvg |-> 4, standardDoctorTimeAvg |-> 6,
        digitalAdoptionRate |-> c.a,
        numKiosks |-> c.r, numNurses |-> c.d, numAiDoctors |-> c.d,
        aiKioskTimeAvg |-> 2, aiTriageTimeAvg |-> 5, aiDoctorTimeAvg |-> 4 ] :
      c \in { [r |-> 1, d |-> 1, a |-> 1], [r |-> 2, d |-> 1, a |-> 0],
              [r |-> 1, d |-> 2, a |-> UDen] } }

This == [ config |-> config, state |-> state, nextArrival |-> nextArrival,
          patientCounter |-> patientCounter,
          lastHistoryCapture |-> lastHistoryCapture,
          enqueued |-> enqueued, admitted |-> admitted, created |-> created,
          spawnedNow |-> spawnedNow, instantsNow |-> instantsNow,
          journey |-> journey, skipped |-> skipped ]

\* new RealtimeEngine(config): the fields of the new object
NewEngine(cfg) ==
    [ config |-> cfg,
      patientCounter |-> 1,
      nextArrival |-> 0,
      lastHistoryCapture |-> 0,
      state |-> [ time |-> 0,
                  patients |-> <<>>,
                  rooms |-> initializeRooms(cfg),
                  history |-> << [ time |-> 0, stdDoctorTotal |-> 0, aiDoctorTotal |-> 0,
                                   stdIntakeTotal |-> 0, aiIntakeTotal |-> 0 ] >>,
                  stats |-> [ stdFinished |-> 0, aiFinished |-> 0,
                              stdReceptionHandled |-> 0, stdDoctorHandled |-> 0,
                              aiKioskHandled |-> 0, aiTriageHandled |-> 0,
                              aiDoctorHandled |-> 0,
                              stdDoctorBusyTime |-> 0, aiDoctorBusyTime |-> 0 ] ],
      enqueued |-> [r \in RoomIds |-> <<>>],
      admitted |-> [r \in RoomIds |-> <<>>],
      created |-> [ty \in PatientTypes |-> 0],
      spawnedNow |-> 0,
      instantsNow |-> 0,
      journey |-> <<>>,
      skipped |-> FALSE ]

\* The engine under observation is a new RealtimeEngine(cfg)
InitEngine(cfg) ==
    /\ config = cfg
    /\ patientCounter = NewEngine(cfg).patientCounter
    /\ nextArrival = NewEngine(cfg).nextArrival
    /\ lastHistoryCapture = NewEngine(cfg).lastHistoryCapture
    /\ state = NewEngine(cfg).state
    /\ enqueued = NewEngine(cfg).enqueued
    /\ admitted = NewEngine(cfg).admitted
    /\ created = NewEngine(cfg).created
    /\ spawnedNow = NewEngine(cfg).spawnedNow
    /\ instantsNow = NewEngine(cfg).instantsNow
    /\ lastDt = 0
    /\ calls = 0
    /\ journey = NewEngine(cfg).journey
    /\ skipped = NewEngine(cfg).skipped

\* new RealtimeEngine(config), the only engine of the run
InitRealtime(cfg) == InitEngine(cfg) /\ twin = NoTwin

\* The engine is left as the call update(dt) made it
Becomes(s, dt) ==
    /\ state' = s.state
    /\ nextArrival' = s.nextArrival
    /\ patientCounter' = s.patientCounter
    /\ lastHistoryCapture' = s.lastHistoryCapture
    /\ enqueued' = s.enqueued
    /\ admitted' = s.admitted
    /\ created' = s.created
    /\ spawnedNow' = s.spawnedNow
    /\ instantsNow' = s.instantsNow
    /\ lastDt' = dt
    /\ calls' = Min2(calls + 1, 2)
    /\ journey' = s.journey
    /\ skipped' = s.skipped
    /\ UNCHANGED config

\* engine.update(dt) and what it leaves in the engine
UpdateWith(dt) ==
    /\ \E self \in {This} : \E s \in update(self, dt) : Becomes(s, dt)
    /\ UNCHANGED twin
    /\ UNCHANGED simVars

\* The host calls engine.update(dt)
Update == \E dt \in DtSet : state.time + dt <= MaxTime /\ UpdateWith(dt)

\* The host keeps calling update for as long as agents are in the clinic.
WithinHorizon(dt) ==
    \/ state.time + dt <= MaxTime
    \/ state.patients # <<>> /\ state.time + dt <= DrainTime

\* update(dt) with dt > 0
UpdateAdvancing == \E dt \in DtSet : dt > 0 /\ WithinHorizon(dt) /\ UpdateWith(dt)

\* update(0)
UpdateStill == \E dt \in DtSet : dt = 0 /\ WithinHorizon(dt) /\ UpdateWith(dt)

\* A caller's own Agent object: WAITING, with an id the engine has not issued,
\* so that no room's queue holds it.
StrayAgent ==
    [ id |-> patientCounter,
      type |-> "STANDARD",
      state |-> "WAITING",
      position |-> [base |-> POS.STD_CHECKIN_WAIT, moved |-> 0],
      targetPosition |-> POS.STD_CHECKIN_WAIT,
      currentRoomId |-> NULL,
      processingSince |-> 0,
      processingDuration |-> 0,
      totalWaitTime |-> 0 ]

\* A caller calls engine.updateAgent(agent, dt) on such an agent.  The agent
\* is the caller's object and not in the live list, so of the engine only the
\* record of the call changes.
UpdateStrayAgent ==
    /\ \E dt \in DtSet :
          LET s0 == [This EXCEPT !.state.patients = Append(@, StrayAgent),
                                 !.skipped = FALSE]
          IN  \E s \in updateAgent(s0, Len(s0.state.patients), dt) :
                /\ skipped' = s.skipped
                /\ state' = [s.state EXCEPT
                                !.patients = SubSeq(@, 1, Len(state.patients))]
    /\ UNCHANGED <<config, nextArrival, patientCounter, lastHistoryCapture, enqueued,
                   admitted, created, spawnedNow, instantsNow, lastDt, calls, journey,
                   twin>>
    /\ UNCHANGED simVars

\* The station whose service is made to outlast the run, the station that
\* feeds it, and the statistic that counts the agents it has handled.
BlockedRoom == "std_doctor"
UpstreamRoom == "std_reception"

\* The configuration c with standard-doctor service times that exceed the run
\* horizon: the shortest one, half the mean, is longer than MaxTime.
Blocked(c) == [c EXCEPT !.standardDoctorTimeAvg = 4 * MaxTime]

\* Has the agent been routed on to the blocked station?
PastUpstream(e, a) ==
    /\ a.type = "STANDARD"
    /\ e.journey[a.id].served # <<>>
    /\ a.currentRoomId # UpstreamRoom

\* What an engine holds apart from the blocked station and the agents routed
\* on to it: the clock, the arrival stream, every other room with its logs
\* and counters, and the agents that are elsewhere.
UpstreamView(e) ==
    [ time |-> e.state.time,
      nextArrival |-> e.nextArrival,
      patientCounter |-> e.patientCounter,
      rooms |-> SelectSeq(e.state.rooms, LAMBDA room : room.id # BlockedRoom),
      stats |-> [ f \in {"aiFinished", "stdReceptionHandled", "aiKioskHandled",
                         "aiTriageHandled", "aiDoctorHandled", "aiDoctorBusyTime"} |->
                    e.state.stats[f] ],
      enqueued |-> [ r \in RoomIds \ {BlockedRoom} |-> e.enqueued[r] ],
      admitted |-> [ r \in RoomIds \ {BlockedRoom} |-> e.admitted[r] ],
      agents |-> SelectSeq(e.state.patients, LAMBDA a : ~PastUpstream(e, a)) ]

\* The host drives two engines with the same update calls: the one under
\* observation and the twin.  The twin takes the same draws for the arrivals
\* and at every station other than the blocked one.
UpdatePair ==
    /\ twin # NoTwin
    /\ \E dt \in DtSet :
          /\ state.time + dt <= MaxTime
          /\ \E self \in {This} : \E s \in update(self, dt) :
                \E s2 \in update(twin, dt) :
                    /\ UpstreamView(s2) = UpstreamView(s)
                    /\ Becomes(s, dt)
                    /\ twin' = s2
    /\ UNCHANGED simVars

----------------------------------------------------------------------------
(* Batch engine: Resource *)

\* new Resource(name, capacity); units are numbered from 0 as in the source
Resource(name, capacity) ==
    [ name |-> name, capacity |-> capacity,
      availableAt |-> [i \in 0 .. (capacity - 1) |-> 0],
      totalBusyTime |-> [i \in 0 .. (capacity - 1) |-> 0],
      queue |-> <<>> ]

RECURSIVE earliestFromTiesLater(_, _, _)
\* earliestFrom with <= in place of <: on a tie the later unit wins
earliestFromTiesLater(res, i, minIdx) ==
    IF i >= res.capacity THEN minIdx
    ELSE earliestFromTiesLater(res, i + 1,
                      IF res.availableAt[i] <= res.availableAt[minIdx] THEN i ELSE minIdx)

RECURSIVE earliestFrom(_, _, _)
\* getEarliestUnitIndex: the loop from unit i on, with the running minIdx
earliestFrom(res, i, minIdx) ==
    IF i >= res.capacity THEN minIdx
    ELSE earliestFrom(res, i + 1,
                      IF res.availableAt[i] < res.availableAt[minIdx] THEN i ELSE minIdx)

\* Resource.getEarliestUnitIndex()
getEarliestUnitIndex(res) == earliestFrom(res, 1, 0)

\* seize that always takes unit 0 at the resource named Kiosk
seizeFirstUnitAtKiosk(res, now, duration) ==
    LET unitIdx == IF res.name = "Kiosk" THEN 0 ELSE getEarliestUnitIndex(res)
        readyAt == Max2(now, res.availableAt[unitIdx])
        waitTime == readyAt - now
        finishTime == readyAt + duration
    IN  [ resource |-> [res EXCEPT !.availableAt[unitIdx] = finishTime,
                                   !.totalBusyTime[unitIdx] = @ + duration],
          unitIndex |-> unitIdx, startTime |-> readyAt,
          finishTime |-> finishTime, waitTime |-> waitTime ]

\* seize that starts the service at once, whether or not the unit is free
seizeWithoutWaiting(res, now, duration) ==
    LET unitIdx == getEarliestUnitIndex(res)
        readyAt == now
        waitTime == readyAt - now
        finishTime == readyAt + duration
    IN  [ resource |-> [res EXCEPT !.availableAt[unitIdx] = finishTime,
                                   !.totalBusyTime[unitIdx] = @ + duration],
          unitIndex |-> unitIdx, startTime |-> readyAt,
          finishTime |-> finishTime, waitTime |-> waitTime ]

\* Resource.seize(currentTime, duration): the result and the resource after it
seize(res, now, duration) ==
    LET unitIdx == getEarliestUnitIndex(res)
        readyAt == Max2(now, res.availableAt[unitIdx])
        waitTime == readyAt - now
        finishTime == readyAt + duration
    IN  [ resource |-> [res EXCEPT !.availableAt[unitIdx] = finishTime,
                                   !.totalBusyTime[unitIdx] = @ + duration],
          unitIndex |-> unitIdx, startTime |-> readyAt,
          finishTime |-> finishTime, waitTime |-> waitTime ]

----------------------------------------------------------------------------
(* Batch engine: ClinicSimulation.  `sim` is the simulation object. *)

\* sort with the comparator b.time - a.time: latest event first
sortByTimeDescending(seq) ==
    LET rank(j) == Cardinality({m \in DOMAIN seq : seq[m].time > seq[j].time})
                   + Cardinality({m \in 1 .. j : seq[m].time = seq[j].time})
    IN  [i \in DOMAIN seq |-> seq[CHOOSE j \in DOMAIN seq : rank(j) = i]]

\* The place of seq[j] after a stable sort by time: behind every earlier event,
\* and behind the events of its own time that precede it in seq
RankByTime(seq, j) ==
    Cardinality({m \in DOMAIN seq : seq[m].time < seq[j].time})
    + Cardinality({m \in 1 .. j : seq[m].time = seq[j].time})

\* events.sort((a, b) => a.time - b.time): Array.prototype.sort is stable
sortByTime(seq) ==
    [i \in DOMAIN seq |-> seq[CHOOSE j \in DOMAIN seq : RankByTime(seq, j) = i]]

\* addEvent without the sort: the event is only pushed
addEventUnsorted(sim, event) == [sim EXCEPT !.events = Append(@, event)]

\* addEvent that pushes the event twice
addEventTwice(sim, event) ==
    [sim EXCEPT !.events = sortByTime(Append(Append(@, event), event))]

\* addEvent(event)
addEvent(sim, event) == [sim EXCEPT !.events = sortByTime(Append(@, event))]

\* getPatientKey without the sign: both clinics use the id as the key
getPatientKeyUnsigned(id, type) == id

\* getPatientKey(id, type)
getPatientKey(id, type) == IF type = "STANDARD" THEN id ELSE -id

Abs(n) == IF n < 0 THEN -n ELSE n

\* scheduleService: pKey > 0 ? 'STANDARD' : 'AI'
clinicOfKey(pKey) == IF pKey > 0 THEN "STANDARD" ELSE "AI"

\* patients.set(key, value)
MapSet(map, key, value) ==
    [k \in DOMAIN map \cup {key} |-> IF k = key THEN value ELSE map[k]]

\* updatePatientMetrics that accumulates the wait only
updatePatientMetricsWaitOnly(sim, pKey, wait, service) ==
    IF pKey \in DOMAIN sim.patients
    THEN [sim EXCEPT !.patients[pKey].waitTime = @ + wait]
    ELSE sim

\* updatePatientMetrics(pKey, wait, service)
updatePatientMetrics(sim, pKey, wait, service) ==
    IF pKey \in DOMAIN sim.patients
    THEN [sim EXCEPT !.patients[pKey].waitTime = @ + wait,
                     !.patients[pKey].serviceTime = @ + service]
    ELSE sim

\* scheduleService that schedules the next event at the start of the service
scheduleServiceAtStart(sim, resName, now, pKey, nextStageName, durations) ==
    UNION { { LET s1 == [sim EXCEPT
                       !.resources[resName] = out.resource,
                       !.seizeLog = Append(@,
                           [ res |-> resName, pKey |-> pKey, now |-> now, duration |-> duration,
                             before |-> sim.resources[resName], after |-> out.resource,
                             unitIndex |-> out.unitIndex, startTime |-> out.startTime,
                             finishTime |-> out.finishTime, waitTime |-> out.waitTime ])]
                  s2 == updatePatientMetrics(s1, pKey, out.waitTime, duration)
              IN  addEvent(s2, [ time |-> out.startTime,
                                 type |-> "SERVICE_COMPLETED",
                                 patientId |-> Abs(pKey),
                                 clinicType |-> clinicOfKey(pKey),
                                 stage |-> nextStageName ]) :
              out \in {seize(sim.resources[resName], now, duration)} } :
            duration \in durations }

\* scheduleService(resource, currentTime, pKey, nextStageName, durationFn);
\* resName is the field holding the resource, durations what durationFn() can return
scheduleService(sim, resName, now, pKey, nextStageName, durations) ==
    UNION { { LET s1 == [sim EXCEPT
                       !.resources[resName] = out.resource,
                       !.seizeLog = Append(@,
                           [ res |-> resName, pKey |-> pKey, now |-> now, duration |-> duration,
                             before |-> sim.resources[resName], after |-> out.resource,
                             unitIndex |-> out.unitIndex, startTime |-> out.startTime,
                             finishTime |-> out.finishTime, waitTime |-> out.waitTime ])]
                  s2 == updatePatientMetrics(s1, pKey, out.waitTime, duration)
              IN  addEvent(s2, [ time |-> out.finishTime,
                                 type |-> "SERVICE_COMPLETED",
                                 patientId |-> Abs(pKey),
                                 clinicType |-> clinicOfKey(pKey),
                                 stage |-> nextStageName ]) :
              out \in {seize(sim.resources[resName], now, duration)} } :
            duration \in durations }

\* The randomTriangular call that draws the service time at a resource of the
\* batch engine
stageTriangle(cfg, resName) ==
    CASE resName = "stdReception" -> Triangle(30, 50, 80)
      [] resName = "stdDoctor"    -> Triangle(150, cfg.standardDoctorTimeAvg, 250)
      [] resName = "aiKiosks"     -> Triangle(50, 70, 100)
      [] resName = "aiDoctor"     -> Triangle(80, cfg.aiDoctorTimeAvg, 120)

\* processStandardEvent whose RECEPTION_DONE stage puts the event back on the
\* list in place of moving the patient on: a stage sequence with a cycle
processStandardEventRequeue(sim, event) ==
    LET pKey == getPatientKey(event.patientId, "STANDARD")
    IN  IF pKey \notin DOMAIN sim.patients THEN {sim}
        ELSE IF event.type = "ARRIVAL"
        THEN scheduleService(sim, "stdReception", event.time, pKey, "RECEPTION_DONE",
                 triangular(stageTriangle(simConfig, "stdReception")))
        ELSE IF event.type = "SERVICE_COMPLETED"
        THEN IF event.stage = "RECEPTION_DONE"
             THEN {addEvent(sim, event)}
             ELSE IF event.stage = "DOCTOR_DONE"
             THEN {[sim EXCEPT !.patients[pKey].exitTime = <<event.time>>]}
             ELSE {sim}
        ELSE {sim}

\* processStandardEvent(event)
processStandardEvent(sim, event) ==
    LET pKey == getPatientKey(event.patientId, "STANDARD")
    IN  IF pKey \notin DOMAIN sim.patients THEN {sim}
        ELSE IF event.type = "ARRIVAL"
        THEN scheduleService(sim, "stdReception", event.time, pKey, "RECEPTION_DONE",
                 triangular(stageTriangle(simConfig, "stdReception")))
        ELSE IF event.type = "SERVICE_COMPLETED"
        THEN IF event.stage = "RECEPTION_DONE"
             THEN scheduleService(sim, "stdDoctor", event.time, pKey, "DOCTOR_DONE",
                      triangular(stageTriangle(simConfig, "stdDoctor")))
             ELSE IF event.stage = "DOCTOR_DONE"
             THEN {[sim EXCEPT !.patients[pKey].exitTime = <<event.time>>]}
             ELSE {sim}
        ELSE {sim}

\* processAiEvent that seizes the standard clinic's doctor after triage
processAiEventAtStdDoctor(sim, event) ==
    LET pKey == getPatientKey(event.patientId, "AI")
        triage == {randomNormal(z, 50, 10) : z \in ZDraws}
    IN  IF pKey \notin DOMAIN sim.patients THEN {sim}
        ELSE IF event.type = "ARRIVAL"
        THEN IF sim.patients[pKey].type = "AI_DIGITAL"
             THEN scheduleService(sim, "aiNurses", event.time, pKey, "TRIAGE_DONE", triage)
             ELSE scheduleService(sim, "aiKiosks", event.time, pKey, "KIOSK_DONE",
                      triangular(stageTriangle(simConfig, "aiKiosks")))
        ELSE IF event.type = "SERVICE_COMPLETED"
        THEN IF event.stage = "KIOSK_DONE"
             THEN scheduleService(sim, "aiNurses", event.time, pKey, "TRIAGE_DONE", triage)
             ELSE IF event.stage = "TRIAGE_DONE"
             THEN scheduleService(sim, "stdDoctor", event.time, pKey, "DOCTOR_DONE",
                      triangular(stageTriangle(simConfig, "aiDoctor")))
             ELSE IF event.stage = "DOCTOR_DONE"
             THEN {[sim EXCEPT !.patients[pKey].exitTime = <<event.time>>]}
             ELSE {sim}
        ELSE {sim}

\* processAiEvent(event)
processAiEvent(sim, event) ==
    LET pKey == getPatientKey(event.patientId, "AI")
        triage == {randomNormal(z, 50, 10) : z \in ZDraws}
    IN  IF pKey \notin DOMAIN sim.patients THEN {sim}
        ELSE IF event.type = "ARRIVAL"
        THEN IF sim.patients[pKey].type = "AI_DIGITAL"
             THEN scheduleService(sim, "aiNurses", event.time, pKey, "TRIAGE_DONE", triage)
             ELSE scheduleService(sim, "aiKiosks", event.time, pKey, "KIOSK_DONE",
                      triangular(stageTriangle(simConfig, "aiKiosks")))
        ELSE IF event.type = "SERVICE_COMPLETED"
        THEN IF event.stage = "KIOSK_DONE"
             THEN scheduleService(sim, "aiNurses", event.time, pKey, "TRIAGE_DONE", triage)
             ELSE IF event.stage = "TRIAGE_DONE"
             THEN scheduleService(sim, "aiDoctor", event.time, pKey, "DOCTOR_DONE",
                      triangular(stageTriangle(simConfig, "aiDoctor")))
             ELSE IF event.stage = "DOCTOR_DONE"
             THEN {[sim EXCEPT !.patients[pKey].exitTime = <<event.time>>]}
             ELSE {sim}
        ELSE {sim}

\* run(), loop 1, one pass that does not break: the joint arrival at time at
\* with id; isDigital is the outcome of Math.random() < digitalAdoptionRate
scheduleArrival(sim, at, id, isDigital) ==
    LET s1 == addEvent(sim, [ time |-> at, type |-> "ARRIVAL", patientId |-> id,
                              clinicType |-> "STANDARD", stage |-> NULL ])
        s2 == addEvent(s1, [ time |-> at, type |-> "ARRIVAL", patientId |-> id,
                             clinicType |-> "AI", stage |-> NULL ])
        std == [ id |-> id, type |-> "STANDARD", arrivalTime |-> at, exitTime |-> NoExit,
                 waitTime |-> 0, serviceTime |-> 0, usedKiosk |-> FALSE ]
        ai == [ id |-> id, type |-> IF isDigital THEN "AI_DIGITAL" ELSE "AI_WALK_IN",
                arrivalTime |-> at, exitTime |-> NoExit,
                waitTime |-> 0, serviceTime |-> 0, usedKiosk |-> ~isDigital ]
    IN  [s2 EXCEPT !.patients =
            MapSet(MapSet(@, getPatientKey(id, "STANDARD"), std), getPatientKey(id, "AI"), ai)]

RECURSIVE SumOver(_, _)
\* reduce((acc, p) => acc + f[p], 0) over the keys in `keys`
SumOver(keys, f) ==
    IF keys = {} THEN 0
    ELSE LET k == CHOOSE x \in keys : TRUE
         IN  f[k] + SumOver(keys \ {k}, f)

\* the fraction left as it is: no cap
uncapped(frac) == frac

\* Math.min(docUtilization, 100), for the fraction num/den
capAt100(frac) == [num |-> Min2(frac.num, 100 * frac.den), den |-> frac.den]

\* compileResults(), calcStats: a percentage or an average is the fraction num/den
calcStats(sim, keys, resNames, name) ==
    LET count == Cardinality(keys)
        wait == [k \in keys |-> sim.patients[k].waitTime]
        service == [k \in keys |-> sim.patients[k].serviceTime]
        \* LoS = Exit - Arrival
        los == [k \in keys |-> sim.patients[k].exitTime[1] - sim.patients[k].arrivalTime]
        avg(total) == IF count > 0 THEN [num |-> total, den |-> count]
                      ELSE [num |-> 0, den |-> 1]
        docs == {i \in DOMAIN resNames : sim.resources[resNames[i]].name = "Doctor"}
        docRes == sim.resources[resNames[CHOOSE i \in docs : \A j \in docs : i <= j]]
        docUtilization ==
            IF docs = {} THEN [num |-> 0, den |-> 1]
            ELSE [num |-> docRes.totalBusyTime[0] * 100, den |-> simConfig.durationMinutes]
        busySum(r) == SumOver(0 .. (sim.resources[r].capacity - 1),
                              sim.resources[r].totalBusyTime)
    IN  [ name |-> name,
          totalPatients |-> Cardinality(DOMAIN sim.patients) \div 2,
          throughput |-> count,
          avgLoS |-> avg(SumOver(keys, los)),
          avgWaitTime |-> avg(SumOver(keys, wait)),
          avgServiceTime |-> avg(SumOver(keys, service)),
          doctorUtilization |-> capAt100(docUtilization),
          resourceStats |->
              [ i \in DOMAIN resNames |->
                  [ name |-> sim.resources[resNames[i]].name,
                    capacity |-> sim.resources[resNames[i]].capacity,
                    busyTime |-> [ num |-> busySum(resNames[i]) * 100,
                                   den |-> simConfig.durationMinutes
                                           * sim.resources[resNames[i]].capacity ] ] ],
          patients |-> keys ]

\* compileResults()
compileResults(sim) ==
    LET exited(k) == sim.patients[k].exitTime # NoExit
        stdPatients == {k \in DOMAIN sim.patients :
                           sim.patients[k].type = "STANDARD" /\ exited(k)}
        aiPatients == {k \in DOMAIN sim.patients :
                          sim.patients[k].type # "STANDARD" /\ exited(k)}
    IN  [ standard |-> calcStats(sim, stdPatients, <<"stdReception", "stdDoctor">>,
                                 "Standard Clinic"),
          ai |-> calcStats(sim, aiPatients, <<"aiKiosks", "aiNurses", "aiDoctor">>,
                           "AI-Enabled Clinic") ]

----------------------------------------------------------------------------
(* Batch engine: the state machine *)

\* Configurations the batch engine is constructed with (times in ticks,
\* digitalAdoptionRate in UDen-ths).
SimConfigs ==
    { [ durationMinutes |-> 40, avgArrivalInterval |-> 20,
        numStdReceptionists |-> c.r, numStdDoctors |-> c.d,
        stdReceptionTimeAvg |-> 130, standardDoctorTimeAvg |-> c.sd,
        digitalAdoptionRate |-> c.a,
        numKiosks |-> c.r, numNurses |-> c.r, numAiDoctors |-> c.d,
        aiKioskTimeAvg |-> 30, aiTriageTimeAvg |-> 45, aiDoctorTimeAvg |-> c.ad ] :
      c \in { [r |-> 1, d |-> 1, a |-> 1, sd |-> 200, ad |-> 100],
              [r |-> 2, d |-> 1, a |-> 0, sd |-> 200, ad |-> 100],
              [r |-> 2, d |-> 2, a |-> UDen, sd |-> 480, ad |-> 40] } }

Sim == [ currentTime |-> currentTime, events |-> events, patients |-> patients,
         resources |-> resources, seizeLog |-> seizeLog, prevTime |-> prevTime ]

\* runSimulation(config): new ClinicSimulation(config), and run() is entered
InitSim(cfg) ==
    /\ simConfig = cfg
    /\ currentTime = 0
    /\ events = <<>>
    /\ patients = <<>>
    /\ resources = [ stdReception |-> Resource("Reception", simConfig.numStdReceptionists),
                     stdDoctor |-> Resource("Doctor", simConfig.numStdDoctors),
                     aiKiosks |-> Resource("Kiosk", simConfig.numKiosks),
                     aiNurses |-> Resource("Nurse", simConfig.numNurses),
                     aiDoctor |-> Resource("Doctor", simConfig.numAiDoctors) ]
    \* run() is entered: let t = 0; let pId = 1
    /\ runPc = "arrivals"
    /\ t = 0
    /\ pId = 1
    /\ result = NULL
    /\ seizeLog = <<>>
    /\ prevTime = 0

SetSim(s) ==
    /\ currentTime' = s.currentTime
    /\ events' = s.events
    /\ patients' = s.patients
    /\ resources' = s.resources
    /\ seizeLog' = s.seizeLog
    /\ prevTime' = s.prevTime

\* run(), loop 1: a pass that schedules a joint arrival (t <= durationMinutes)
ScheduleArrival ==
    /\ runPc = "arrivals"
    /\ t < simConfig.durationMinutes
    /\ \E negLn \in StreamNegLnDraws, k \in UDraws :
          LET at == t + randomExponential(negLn, [num |-> 1, den |-> simConfig.avgArrivalInterval])
          IN  /\ ~(at > simConfig.durationMinutes)
              /\ SetSim(scheduleArrival(Sim, at, pId,
                                           isDigitalDraw(k, simConfig.digitalAdoptionRate)))
              /\ t' = at
              /\ pId' = pId + 1
    /\ UNCHANGED <<simConfig, runPc, result>>
    /\ UNCHANGED rtVars

\* run(), loop 1: the pass that breaks (t > durationMinutes)
BreakArrivals ==
    /\ runPc = "arrivals"
    /\ t < simConfig.durationMinutes
    /\ \E negLn \in StreamNegLnDraws :
          LET at == t + randomExponential(negLn, [num |-> 1, den |-> simConfig.avgArrivalInterval])
          IN  /\ at > simConfig.durationMinutes
              /\ t' = at
    /\ runPc' = "events"
    /\ UNCHANGED <<simConfig, currentTime, events, patients, resources, pId, result,
                   seizeLog, prevTime>>
    /\ UNCHANGED rtVars

\* run(), loop 1 ends on its condition (t >= durationMinutes)
EndArrivals ==
    /\ runPc = "arrivals"
    /\ ~(t < simConfig.durationMinutes)
    /\ runPc' = "events"
    /\ UNCHANGED <<simConfig, currentTime, events, patients, resources, t, pId, result,
                   seizeLog, prevTime>>
    /\ UNCHANGED rtVars

\* run(), loop 2: one pass (events.shift(), dispatch by clinic)
ProcessEvent ==
    /\ runPc = "events"
    /\ Len(events) > 0
    /\ \E event \in {Head(events)} :
       \E s0 \in {[Sim EXCEPT !.events = Tail(@), !.currentTime = event.time,
                               !.prevTime = currentTime]} :
       \E s \in (IF event.clinicType = "STANDARD"
                 THEN processStandardEvent(s0, event)
                 ELSE processAiEvent(s0, event)) : SetSim(s)
    /\ UNCHANGED <<simConfig, runPc, t, pId, result>>
    /\ UNCHANGED rtVars

\* Return with an event loop that also ends at the first event past the horizon
ReturnAtHorizon ==
    /\ runPc = "events"
    /\ IF Len(events) > 0 THEN Head(events).time > simConfig.durationMinutes ELSE TRUE
    /\ result' = compileResults(Sim)
    /\ runPc' = "done"
    /\ UNCHANGED <<simConfig, currentTime, events, patients, resources, t, pId,
                   seizeLog, prevTime>>
    /\ UNCHANGED rtVars

\* run(): loop 2 has ended, return this.compileResults()
Return ==
    /\ runPc = "events"
    /\ ~(Len(events) > 0)
    /\ result' = compileResults(Sim)
    /\ runPc' = "done"
    /\ UNCHANGED <<simConfig, currentTime, events, patients, resources, t, pId,
                   seizeLog, prevTime>>
    /\ UNCHANGED rtVars

NextBatch == ScheduleArrival \/ BreakArrivals \/ EndArrivals
             \/ ProcessEvent \/ Return

----------------------------------------------------------------------------
(* Specifications *)

\* The two engines share no state.  Each specification runs one of them on
\* every configuration and leaves the other as constructed.
AnyConfig == CHOOSE c \in Configs : TRUE
AnySimConfig == CHOOSE c \in SimConfigs : TRUE

\* The continuous engine, driven by its host.
Init == (\E c \in Configs : InitRealtime(c)) /\ InitSim(AnySimConfig)

Next == Update

Spec == Init /\ [][Next]_vars

\* The batch engine: one call of runSimulation(config).
InitBatch == InitRealtime(AnyConfig) /\ (\E c \in SimConfigs : InitSim(c))

SpecBatch == InitBatch /\ [][NextBatch]_vars

\* One call of runSimulation(config) that is never abandoned: run() keeps
\* taking its next step for as long as it has one.
SpecBatchFair == SpecBatch /\ WF_vars(NextBatch)

\* Either engine: the two are separate objects, and a run drives one of them
\* while the other stays as constructed.
RealtimeFresh == calls = 0
SimFresh == runPc = "arrivals" /\ t = 0 /\ pId = 1

InitEither == Init \/ InitBatch

NextEither == (SimFresh /\ Update) \/ (RealtimeFresh /\ NextBatch)

SpecEither == InitEither /\ [][NextEither]_vars

\* Configurations outside the documented ranges, which the constructors
\* accept as they accept any other: a station without staff, and a mean
\* service time of 0.
InvalidConfigs == { [c EXCEPT !.numStdDoctors = 0] : c \in Configs }
InvalidSimConfigs == { [c EXCEPT !.standardDoctorTimeAvg = 0] : c \in SimConfigs }

InitInvalid ==
    \/ (\E c \in InvalidConfigs : InitRealtime(c)) /\ InitSim(AnySimConfig)
    \/ InitRealtime(AnyConfig) /\ (\E c \in InvalidSimConfigs : InitSim(c))

\* Either engine, constructed with such a configuration.
SpecInvalid == InitInvalid /\ [][NextEither]_vars

\* The continuous engine under a host that calls update with dt > 0 again and
\* again.
NextLive == UpdateAdvancing \/ UpdateStill

\* The configurations with one staff member at every station, where agents
\* queue behind each other the most.
SingleStaffConfigs ==
    { c \in Configs : c.numStdReceptionists = 1 /\ c.numStdDoctors = 1 }

InitLive == (\E c \in SingleStaffConfigs : InitRealtime(c)) /\ InitSim(AnySimConfig)

SpecLive == InitLive /\ [][NextLive]_vars /\ WF_vars(UpdateAdvancing)

\* Two continuous engines side by side: one whose standard doctor is blocked,
\* and a twin that differs only in the standard doctor's mean service time.
InitPair ==
    /\ \E c \in SingleStaffConfigs :
          /\ InitEngine(Blocked(c))
          /\ twin = NewEngine(c)
    /\ InitSim(AnySimConfig)

SpecPair == InitPair /\ [][UpdatePair]_vars

\* The continuous engine with a caller that also calls updateAgent directly.
NextStray == Update \/ UpdateStrayAgent

SpecStray == Init /\ [][NextStray]_vars

\* The arguments of the direct seize calls: the time since the previous call,
\* and the duration.
SeizeGaps == {0, 2}
SeizeDurations == {1, 3}

\* The log entry of one seize call
SeizeEntry(resName, now, duration, out) ==
    [ res |-> resName, pKey |-> 0, now |-> now, duration |-> duration,
      before |-> resources[resName], after |-> out.resource,
      unitIndex |-> out.unitIndex, startTime |-> out.startTime,
      finishTime |-> out.finishTime, waitTime |-> out.waitTime ]

\* seize(now, duration) is called with the same arguments on two resources of
\* equal capacity, the receptionists and the kiosks.
SeizeCopies ==
    /\ Len(seizeLog) < 2 * MaxSeizes
    /\ \E gap \in SeizeGaps, duration \in SeizeDurations :
          \E now \in {currentTime + gap} :
          \E a \in {seize(resources.stdReception, now, duration)} :
          \E b \in {seize(resources.aiKiosks, now, duration)} :
              /\ currentTime' = now
              /\ resources' = [resources EXCEPT !.stdReception = a.resource,
                                                !.aiKiosks = b.resource]
              /\ seizeLog' = seizeLog \o << SeizeEntry("stdReception", now, duration, a),
                                            SeizeEntry("aiKiosks", now, duration, b) >>
    /\ UNCHANGED <<simConfig, events, patients, runPc, t, pId, result, prevTime>>
    /\ UNCHANGED rtVars

\* The Resource class on its own, driven by direct seize calls.
SpecSeize == InitBatch /\ [][SeizeCopies]_vars

----------------------------------------------------------------------------
(* Continuous engine: properties *)

ServiceRooms == {r \in DOMAIN state.rooms : state.rooms[r].type = "SERVICE"}

\* C1: in every state reachable by update calls, every room has
\* 0 <= staffBusy <= capacity, and its queue has a length >= 0.
C1_StaffBusyWithinCapacity ==
    \A r \in DOMAIN state.rooms :
        /\ 0 <= state.rooms[r].staffBusy
        /\ state.rooms[r].staffBusy <= state.rooms[r].capacity
        /\ Len(state.rooms[r].queue) >= 0

\* A station with every unit busy while an agent waits at the head of its queue.
C1_Witness ==
    \E r \in ServiceRooms :
        /\ state.rooms[r].staffBusy = state.rooms[r].capacity
        /\ state.rooms[r].queue # <<>>
        /\ \E i \in DOMAIN state.patients :
              /\ state.patients[i].id = state.rooms[r].queue[1]
              /\ state.patients[i].state = "WAITING"

\* C2: one update(dt) that meets N arrival instants <= the new clock (with the
\* new clock < durationMinutes) spawns N joint arrivals.
C2_SpawnsEveryPendingInstant == spawnedNow = instantsNow

IsPrefix(a, b) == Len(a) <= Len(b) /\ \A i \in 1 .. Len(a) : a[i] = b[i]

\* C3: at every station agents are admitted to service in the order in which
\* they were appended to its queue: the admissions so far are a prefix of the
\* enqueue order, so no agent is admitted before one enqueued ahead of it.
C3_FifoAdmission ==
    \A rid \in RoomIds : IsPrefix(admitted[rid], enqueued[rid])

\* A station that has admitted an agent while a later one is still queued.
C3_Witness ==
    \E rid \in RoomIds :
        /\ Len(admitted[rid]) >= 1
        /\ Len(enqueued[rid]) > Len(admitted[rid])

\* C4: after at least one update call, update(0) spawns no agent, and every
\* PROCESSING agent is still PROCESSING afterwards, with the same
\* processingSince and processingDuration.
C4_ZeroDtChangesNothing ==
    [][ (calls >= 1 /\ lastDt' = 0) =>
          /\ patientCounter' = patientCounter
          /\ created' = created
          /\ \A i \in DOMAIN state.patients :
                state.patients[i].state = "PROCESSING" =>
                    \E j \in DOMAIN state'.patients :
                        /\ state'.patients[j].id = state.patients[i].id
                        /\ state'.patients[j].state = "PROCESSING"
                        /\ state'.patients[j].processingSince
                              = state.patients[i].processingSince
                        /\ state'.patients[j].processingDuration
                              = state.patients[i].processingDuration ]_vars

\* update(0) has just run, not as the first call, with an agent in service.
C4_Witness ==
    /\ calls = 2
    /\ lastDt = 0
    /\ \E i \in DOMAIN state.patients : state.patients[i].state = "PROCESSING"

\* C5: in both engines every arrival instant creates one STANDARD and one AI
\* patient: the continuous engine has created as many STANDARD agents as AI
\* agents, and the batch engine's patients come in pairs (id, STANDARD) and
\* (id, AI) with the same arrivalTime.
C5_ArrivalsSynchronized ==
    /\ created["STANDARD"] = created["AI_WALK_IN"] + created["AI_DIGITAL"]
    /\ patientCounter = 1 + 2 * created["STANDARD"]
    /\ \A k \in DOMAIN patients :
          /\ -k \in DOMAIN patients
          /\ patients[k].arrivalTime = patients[-k].arrivalTime
          /\ (patients[k].type = "STANDARD") <=> (k > 0)

\* Two joint arrivals in the continuous engine, one of each AI class.
C5_Witness ==
    /\ created["STANDARD"] = 2
    /\ created["AI_WALK_IN"] = 1
    /\ created["AI_DIGITAL"] = 1

\* The stations that serve an agent of a class, in order.
StationsOf(type) ==
    CASE type = "STANDARD" -> <<"std_reception", "std_doctor">>
      [] type = "AI_WALK_IN" -> <<"ai_kiosk", "ai_triage", "ai_doctor">>
      [] type = "AI_DIGITAL" -> <<"ai_triage", "ai_doctor">>

\* C11: the stations that have served an agent so far are the first ones of
\* its class's sequence, in order (so none outside the sequence and none
\* twice); an agent that has exited was served by the whole sequence; and an
\* AI_DIGITAL agent is never enqueued at ai_kiosk.
C11_RoutingByClass ==
    \A id \in DOMAIN journey :
        /\ IsPrefix(journey[id].served, StationsOf(journey[id].type))
        /\ journey[id].finished > 0 => journey[id].served = StationsOf(journey[id].type)
        /\ journey[id].type = "AI_DIGITAL" => ~Contains(enqueued["ai_kiosk"], id)

\* An agent of each class has been served by its whole sequence and has exited.
C11_Witness ==
    \A ty \in PatientTypes :
        \E id \in DOMAIN journey :
            /\ journey[id].type = ty
            /\ journey[id].finished > 0
            /\ journey[id].served = StationsOf(ty)

ExitPositions == {POS.STD_EXIT, POS.AI_EXIT}

\* May an agent that was `a` before an update call be `b` after it?
TransitionAllowed(a, b) ==
    \/ b.state = a.state
    \/ a.state = "MOVING" /\ b.state = "WAITING" /\ a.targetPosition \notin ExitPositions
    \/ a.state = "WAITING" /\ b.state = "PROCESSING"
    \/ a.state = "PROCESSING" /\ b.state = "MOVING"

\* C13: over an update call an agent keeps its state or goes MOVING -> WAITING
\* (its target no exit), WAITING -> PROCESSING or PROCESSING -> MOVING; an
\* agent leaves the live list (COMPLETED) only from MOVING towards an exit;
\* and an agent new to the list is MOVING, or WAITING at its first waypoint.
C13_AgentStateMachine ==
    [][ /\ \A i \in DOMAIN state.patients :
              LET a == state.patients[i]
                  after == {j \in DOMAIN state'.patients : state'.patients[j].id = a.id}
              IN  IF after = {}
                  THEN a.state = "MOVING" /\ a.targetPosition \in ExitPositions
                  ELSE \A j \in after : TransitionAllowed(a, state'.patients[j])
        /\ \A j \in DOMAIN state'.patients :
              LET b == state'.patients[j]
              IN  /\ b.state \in {"MOVING", "WAITING", "PROCESSING"}
                  /\ (\A i \in DOMAIN state.patients : state.patients[i].id # b.id)
                        => b.state \in {"MOVING", "WAITING"} /\ journey'[b.id].served = <<>>
      ]_vars

\* An agent has gone through every state and completed, while others are
\* MOVING, WAITING and PROCESSING.
C13_Witness ==
    /\ \E id \in DOMAIN journey : journey[id].finished > 0
    /\ \A st \in {"MOVING", "WAITING", "PROCESSING"} :
          \E i \in DOMAIN state.patients : state.patients[i].state = st

\* Agents of a clinic (standard or not) in the live list / counted as finished.
LiveOf(std) ==
    Cardinality({i \in DOMAIN state.patients : (state.patients[i].type = "STANDARD") = std})
FinishedOf(std) ==
    Cardinality({id \in DOMAIN journey :
                    (journey[id].type = "STANDARD") = std /\ journey[id].finished > 0})

\* C14: after every update call no live agent is COMPLETED; every agent was
\* counted as finished at most once, and the finished counters count the
\* agents that completed; and per clinic, spawned = finished + live.
C14_CompletionBookkeeping ==
    /\ \A i \in DOMAIN state.patients : state.patients[i].state # "COMPLETED"
    /\ \A id \in DOMAIN journey : journey[id].finished <= 1
    /\ state.stats.stdFinished = FinishedOf(TRUE)
    /\ state.stats.aiFinished = FinishedOf(FALSE)
    /\ created["STANDARD"] = state.stats.stdFinished + LiveOf(TRUE)
    /\ created["AI_WALK_IN"] + created["AI_DIGITAL"] = state.stats.aiFinished + LiveOf(FALSE)

\* Both clinics have finished an agent while others are still live.
C14_Witness ==
    /\ state.stats.stdFinished >= 1
    /\ state.stats.aiFinished >= 1
    /\ LiveOf(TRUE) >= 1
    /\ LiveOf(FALSE) >= 1

----------------------------------------------------------------------------
(* Batch engine: properties *)

\* C6: every patient with a recorded exit time has
\* exitTime - arrivalTime = waitTime + serviceTime and exitTime >= arrivalTime.
C6_LengthOfStayIsWaitPlusService ==
    \A k \in DOMAIN patients :
        patients[k].exitTime # NoExit =>
            /\ patients[k].exitTime[1] - patients[k].arrivalTime
                  = patients[k].waitTime + patients[k].serviceTime
            /\ patients[k].exitTime[1] >= patients[k].arrivalTime

\* run() has returned, and a patient who had to wait has exited.
C6_Witness ==
    /\ runPc = "done"
    /\ \E k \in DOMAIN patients :
          /\ patients[k].exitTime # NoExit
          /\ patients[k].waitTime > 0
          /\ patients[k].serviceTime > 0

\* What seize(now, duration) is to do, read off one logged call e.
SeizeAsSpecified(e) ==
    LET units == 0 .. (e.before.capacity - 1)
        u == e.unitIndex
    IN  /\ u \in units
        /\ \A j \in units : e.before.availableAt[u] <= e.before.availableAt[j]
        /\ \A j \in units : e.before.availableAt[j] = e.before.availableAt[u] => u <= j
        /\ e.startTime = Max2(e.now, e.before.availableAt[u])
        /\ e.waitTime = e.startTime - e.now
        /\ e.finishTime = e.startTime + e.duration
        /\ e.after.availableAt[u] = e.finishTime
        /\ e.after.totalBusyTime[u] = e.before.totalBusyTime[u] + e.duration
        /\ \A j \in units \ {u} :
              /\ e.after.availableAt[j] = e.before.availableAt[j]
              /\ e.after.totalBusyTime[j] = e.before.totalBusyTime[j]

C8_BatchFifo ==
    \A i, j \in DOMAIN seizeLog :
        (i < j /\ seizeLog[i].res = seizeLog[j].res) =>
            /\ seizeLog[i].now <= seizeLog[j].now
            /\ seizeLog[i].startTime <= seizeLog[j].startTime

\* Two seizes of one resource, the later of which had to wait.
C8_Witness ==
    \E i, j \in DOMAIN seizeLog :
        /\ i < j
        /\ seizeLog[i].res = seizeLog[j].res
        /\ seizeLog[i].now < seizeLog[j].now
        /\ seizeLog[j].waitTime > 0

\* C9: the event list is in non-decreasing time order and holds no event
\* earlier than currentTime (so an event injected while the event at
\* currentTime is processed has a time >= currentTime), and currentTime has
\* not decreased in the latest pass of the event loop.
C9_EventsInTimeOrder ==
    /\ \A i \in 1 .. (Len(events) - 1) : events[i].time <= events[i + 1].time
    /\ \A i \in DOMAIN events : events[i].time >= currentTime
    /\ prevTime <= currentTime

\* The clock has advanced in the event loop, with injected events pending.
C9_Witness ==
    /\ runPc = "events"
    /\ prevTime > 0
    /\ prevTime < currentTime
    /\ \E i \in DOMAIN events : events[i].type = "SERVICE_COMPLETED"
    /\ \E i \in DOMAIN events : events[i].type = "ARRIVAL"

\* C10: once the arrival stream has been laid out, run() terminates, and it
\* terminates with the event list empty.
C10_RunTerminates == (runPc = "events") ~> (runPc = "done" /\ events = <<>>)

\* run() has returned after processing a patient to the exit.
C10_Witness ==
    /\ runPc = "done"
    /\ events = <<>>
    /\ \E k \in DOMAIN patients : patients[k].exitTime # NoExit

\* The resources a patient of a class seizes, in order.
ResourcesOf(type) ==
    CASE type = "STANDARD" -> <<"stdReception", "stdDoctor">>
      [] type = "AI_WALK_IN" -> <<"aiKiosks", "aiNurses", "aiDoctor">>
      [] type = "AI_DIGITAL" -> <<"aiNurses", "aiDoctor">>

\* The seizes made for patient key k, in the order they were made.
SeizesOf(k) == SelectSeq(seizeLog, LAMBDA e : e.pKey = k)

\* C12: the seizes made for a patient are the first ones of its class's
\* sequence, in order, each once; the first is requested at the arrival time
\* and each later one at the finish time the previous seize returned; and a
\* patient that has exited made the whole sequence and exited at the last
\* finish time.
C12_BatchRoutingByClass ==
    \A k \in DOMAIN patients :
        LET log == SeizesOf(k)
            stages == ResourcesOf(patients[k].type)
        IN  /\ Len(log) <= Len(stages)
            /\ \A i \in DOMAIN log :
                  /\ log[i].res = stages[i]
                  /\ log[i].now = IF i = 1 THEN patients[k].arrivalTime
                                  ELSE log[i - 1].finishTime
            /\ patients[k].exitTime # NoExit =>
                  /\ Len(log) = Len(stages)
                  /\ patients[k].exitTime[1] = log[Len(log)].finishTime

\* run() has returned with an exited patient of each class.
C12_Witness ==
    /\ runPc = "done"
    /\ \A ty \in PatientTypes :
          \E k \in DOMAIN patients :
              /\ patients[k].type = ty
              /\ patients[k].exitTime # NoExit
              /\ Len(SeizesOf(k)) = Len(ResourcesOf(ty))

\* The two clinics of a result.
Clinics == {"standard", "ai"}

\* C15: the doctorUtilization that run() reports for each clinic is within
\* 0 .. 100 (as the fraction num/den: 0 <= num <= 100 * den, den > 0).
C15_DoctorUtilizationBounded ==
    runPc = "done" =>
        \A c \in Clinics :
            /\ result[c].doctorUtilization.den > 0
            /\ 0 <= result[c].doctorUtilization.num
            /\ result[c].doctorUtilization.num <= 100 * result[c].doctorUtilization.den

\* A saturated run: the standard doctor's first unit was busy for longer than
\* the horizon, and the report says 100.
C15_Witness ==
    /\ runPc = "done"
    /\ resources.stdDoctor.totalBusyTime[0] > simConfig.durationMinutes
    /\ result.standard.doctorUtilization.num = 100 * result.standard.doctorUtilization.den
    /\ result.ai.doctorUtilization.num > 0

\* C16: every utilization run() returns is at most 100: doctorUtilization and
\* each station's resourceStats[].busyTime.
C16_EveryUtilizationCapped ==
    runPc = "done" =>
        \A c \in Clinics :
            /\ result[c].doctorUtilization.num <= 100 * result[c].doctorUtilization.den
            /\ \A i \in DOMAIN result[c].resourceStats :
                  result[c].resourceStats[i].busyTime.num
                      <= 100 * result[c].resourceStats[i].busyTime.den

\* C17: with digitalAdoptionRate = 0 no AI_DIGITAL patient is created, in
\* either engine; with digitalAdoptionRate = 1 every AI patient is AI_DIGITAL
\* and the kiosk is never used: no agent is enqueued at or handled by
\* ai_kiosk, and the Kiosk resource is never seized and has no busy time.
C17_DigitalAdoptionExtremes ==
    /\ config.digitalAdoptionRate = 0 =>
          /\ created["AI_DIGITAL"] = 0
          /\ \A id \in DOMAIN journey : journey[id].type # "AI_DIGITAL"
    /\ config.digitalAdoptionRate = UDen =>
          /\ created["AI_WALK_IN"] = 0
          /\ enqueued["ai_kiosk"] = <<>>
          /\ admitted["ai_kiosk"] = <<>>
          /\ state.stats.aiKioskHandled = 0
    /\ simConfig.digitalAdoptionRate = 0 =>
          \A k \in DOMAIN patients :
              /\ patients[k].type # "AI_DIGITAL"
              /\ k < 0 => patients[k].usedKiosk
    /\ simConfig.digitalAdoptionRate = UDen =>
          /\ \A k \in DOMAIN patients : k < 0 => patients[k].type = "AI_DIGITAL"
          /\ \A i \in DOMAIN seizeLog : seizeLog[i].res # "aiKiosks"
          /\ \A u \in DOMAIN resources.aiKiosks.totalBusyTime :
                resources.aiKiosks.totalBusyTime[u] = 0

\* A batch run at rate 1 has returned with an AI patient served and exited.
C17_Witness ==
    /\ simConfig.digitalAdoptionRate = UDen
    /\ runPc = "done"
    /\ \E k \in DOMAIN patients :
          k < 0 /\ patients[k].exitTime # NoExit /\ patients[k].serviceTime > 0
    /\ \E i \in DOMAIN seizeLog : seizeLog[i].res = "aiNurses"

\* Is every capacity, every mean service time and the arrival interval of a
\* configuration positive?  (The batch engine reads fewer fields.)
PositiveFields(cfg, fields) == \A f \in fields : cfg[f] > 0

ValidConfig ==
    PositiveFields(config,
        { "numStdReceptionists", "numStdDoctors", "numKiosks", "numNurses", "numAiDoctors",
          "stdReceptionTimeAvg", "standardDoctorTimeAvg", "aiKioskTimeAvg",
          "aiTriageTimeAvg", "aiDoctorTimeAvg", "avgArrivalInterval" })

ValidSimConfig ==
    PositiveFields(simConfig,
        { "numStdReceptionists", "numStdDoctors", "numKiosks", "numNurses", "numAiDoctors",
          "standardDoctorTimeAvg", "aiDoctorTimeAvg", "avgArrivalInterval" })

\* C18: an engine constructed with a non-positive capacity, mean service time
\* or avgArrivalInterval does not run: the continuous engine takes no update,
\* and the batch engine's run() takes no step.
C18_InvalidConfigRejected ==
    /\ ~ValidConfig => RealtimeFresh
    /\ ~ValidSimConfig => SimFresh

\* C19: a call that looks up the station queue of a WAITING agent and finds
\* none does not return normally as if nothing were wrong.
C19_MissingLookupAborts == ~skipped

\* C20: under a host that calls update with dt > 0 again and again, and with
\* every capacity >= 1, no agent waits forever: again and again the engine is
\* in a state where every station has admitted every agent that ever joined
\* its queue and every agent spawned so far has been counted as finished.
C20_NoAgentWaitsForever ==
    []<>(/\ \A rid \in RoomIds : admitted[rid] = enqueued[rid]
         /\ \A id \in DOMAIN journey : journey[id].finished > 0)

\* The clinic has emptied after the clock passed MaxTime, and some station
\* served two agents, the second of which had to queue.
C20_Witness ==
    /\ state.time > MaxTime
    /\ state.patients = <<>>
    /\ \A c \in DOMAIN state.rooms : state.rooms[c].capacity >= 1
    /\ \E rid \in RoomIds : Len(admitted[rid]) >= 2 /\ admitted[rid] = enqueued[rid]
    /\ \A id \in DOMAIN journey : journey[id].finished > 0

\* The blocked station's room in the engine under observation
BlockedStation == state.rooms[getRoom(state.rooms, BlockedRoom)]

\* Every outcome of the next update call has an outcome of the same call on
\* the twin with the same view, and the other way round.
SameViewAfterUpdate ==
    \A dt \in DtSet :
        state.time + dt <= MaxTime =>
            /\ \A s \in update(This, dt) :
                  \E s2 \in update(twin, dt) : UpstreamView(s2) = UpstreamView(s)
            /\ \A s2 \in update(twin, dt) :
                  \E s \in update(This, dt) : UpstreamView(s) = UpstreamView(s2)

\* C21: with standard-doctor service times longer than the run, the doctor's
\* handled counter stays 0, its queue never gets shorter while all its units
\* are busy, and everything apart from the doctor station evolves exactly as
\* in a twin engine whose doctor is not blocked: same clock, arrivals, rooms,
\* admissions, releases and counters, after every update call.
C21_BlockedStation ==
    /\ [](/\ state.stats.stdDoctorHandled = 0
          /\ UpstreamView(This) = UpstreamView(twin)
          /\ SameViewAfterUpdate)
    /\ [][BlockedStation.staffBusy = BlockedStation.capacity
             => Len(BlockedStation'.queue) >= Len(BlockedStation.queue)]_vars

\* The blocked doctor is fully busy with an agent queued behind, the
\* reception has released two agents, and the twin's doctor has handled one.
C21_Witness ==
    /\ twin # NoTwin
    /\ BlockedStation.staffBusy = BlockedStation.capacity
    /\ Len(BlockedStation.queue) >= 1
    /\ state.stats.stdReceptionHandled >= 2
    /\ twin.state.stats.stdDoctorHandled >= 1

\* C22: every service duration either engine uses is strictly positive: the
\* duration of every seize call of the batch engine, and the processingDuration
\* of every agent in service in the continuous engine.
C22_DurationsPositive ==
    /\ \A i \in DOMAIN seizeLog : seizeLog[i].duration > 0
    /\ \A i \in DOMAIN state.patients :
          state.patients[i].state = "PROCESSING" => state.patients[i].processingDuration > 0

WellFormed(tr) == tr.min <= tr.mode /\ tr.mode <= tr.max

\* C23: every randomTriangular call made so far had min <= mode <= max: the
\* call behind every seize of a batch resource other than the nurses, and the
\* call behind the service of every agent in a room with triangular durations.
C23_TriangleWellFormed ==
    /\ \A i \in DOMAIN seizeLog :
          seizeLog[i].res # "aiNurses" => WellFormed(stageTriangle(simConfig, seizeLog[i].res))
    /\ \A i \in DOMAIN state.patients :
          (/\ state.patients[i].state = "PROCESSING"
           /\ state.patients[i].currentRoomId \in TriangularRooms)
          => WellFormed(triangleAround(configuredMean(config, state.patients[i].currentRoomId)))

\* The station of the continuous engine that a batch resource stands for
StationOf(resName) ==
    CASE resName = "stdReception" -> "std_reception"
      [] resName = "stdDoctor"    -> "std_doctor"
      [] resName = "aiKiosks"     -> "ai_kiosk"
      [] resName = "aiNurses"     -> "ai_triage"
      [] resName = "aiDoctor"     -> "ai_doctor"

\* C24: every duration the batch engine assigns at a stage is one the
\* continuous engine can draw for that stage from the same configuration.
C24_SameDurationsFromConfig ==
    \A i \in DOMAIN seizeLog :
        seizeLog[i].duration \in getDuration([config |-> simConfig], StationOf(seizeLog[i].res))

ResourceNames == DOMAIN resources

\* The seize calls made so far on the resource held in field resName
CallsAt(resName) == SelectSeq(seizeLog, LAMBDA e : e.res = resName)

\* What a seize call returned and left in the resource
Outcome(e) ==
    [ unitIndex |-> e.unitIndex, startTime |-> e.startTime, finishTime |-> e.finishTime,
      waitTime |-> e.waitTime, availableAt |-> e.after.availableAt,
      totalBusyTime |-> e.after.totalBusyTime ]

C26_NoArrivalPastHorizon ==
    /\ (calls > 0 /\ state.time >= config.durationMinutes) => spawnedNow = 0
    /\ \A i \in DOMAIN events :
          events[i].type = "ARRIVAL" => events[i].time <= simConfig.durationMinutes
    /\ \A k \in DOMAIN patients : patients[k].arrivalTime <= simConfig.durationMinutes

\* The continuous engine was updated past the horizon with an arrival due.
C26_TickCase ==
    /\ calls > 0
    /\ lastDt > 0
    /\ state.time >= config.durationMinutes
    /\ nextArrival <= state.time
    /\ patientCounter > 1

\* The batch engine's arrival loop scheduled an arrival, then drew one past
\* the horizon and broke.
C26_BatchCase ==
    /\ runPc = "events"
    /\ t > simConfig.durationMinutes
    /\ DOMAIN patients # {}

\* Either engine has met an arrival instant past its horizon.
C26_Witness == C26_TickCase \/ C26_BatchCase

\* C27: an update appends a snapshot to the history exactly when the clock it
\* leaves is at least HistoryInterval past the last capture; it appends at most
\* one, and the snapshots already there stay as they were; after every update
\* the clock is less than HistoryInterval past the last capture.
C27_HistoryCadence ==
    /\ [](state.time - lastHistoryCapture < HistoryInterval)
    /\ [][/\ IsPrefix(state.history, state'.history)
           /\ Len(state'.history) <= Len(state.history) + 1
           /\ Len(state'.history) = Len(state.history) + 1
                  <=> state'.time - lastHistoryCapture >= HistoryInterval]_vars

\* An update has appended a snapshot to the initial one.
C27_Witness ==
    /\ Len(state.history) >= 2
    /\ lastHistoryCapture = state.time
    /\ lastHistoryCapture >= HistoryInterval

StdDoctorRoom == state.rooms[getRoom(state.rooms, "std_doctor")]
AiDoctorRoom == state.rooms[getRoom(state.rooms, "ai_doctor")]

\* C28: each update adds dt * staffBusy / capacity of the doctor station to its
\* busy-time accumulator, and the accumulator stays between 0 and the clock.
\* The model's accumulators hold capacity times the source's value.
C28_DoctorBusyTime ==
    /\ [](/\ 0 <= state.stats.stdDoctorBusyTime
          /\ state.stats.stdDoctorBusyTime <= StdDoctorRoom.capacity * state.time
          /\ 0 <= state.stats.aiDoctorBusyTime
          /\ state.stats.aiDoctorBusyTime <= AiDoctorRoom.capacity * state.time)
    /\ [][/\ state'.stats.stdDoctorBusyTime
                = state.stats.stdDoctorBusyTime + lastDt' * StdDoctorRoom'.staffBusy
           /\ state'.stats.aiDoctorBusyTime
                = state.stats.aiDoctorBusyTime + lastDt' * AiDoctorRoom'.staffBusy]_vars

\* One of two standard doctors is busy and busy time has been accumulated.
C28_Witness ==
    /\ StdDoctorRoom.capacity = 2
    /\ StdDoctorRoom.staffBusy = 1
    /\ lastDt > 0
    /\ state.stats.stdDoctorBusyTime > 0
    /\ state.stats.stdDoctorBusyTime < StdDoctorRoom.capacity * state.time

\* The handled counter of each service station
HandledCounter ==
    [ std_reception |-> "stdReceptionHandled", std_doctor |-> "stdDoctorHandled",
      ai_kiosk |-> "aiKioskHandled", ai_triage |-> "aiTriageHandled",
      ai_doctor |-> "aiDoctorHandled" ]

\* From engine state s0, the updateAgent call on agent i left s: the agent has
\* left service, its room has one staff member less busy and no longer lists
\* it, that station's handled counter is up by one, and every other room's
\* staffBusy and occupants and every other handled counter are as in s0.
Released(s0, s, i) ==
    LET agent == s0.state.patients[i]
    IN  /\ s.state.patients[i].state = "MOVING"
        /\ \A r \in DOMAIN s0.state.rooms :
              IF s0.state.rooms[r].id = agent.currentRoomId
              THEN /\ s.state.rooms[r].staffBusy = s0.state.rooms[r].staffBusy - 1
                   /\ ~Contains(s.state.rooms[r].occupants, agent.id)
                   /\ s.state.rooms[r].occupants = Remove(s0.state.rooms[r].occupants, agent.id)
              ELSE /\ s.state.rooms[r].staffBusy = s0.state.rooms[r].staffBusy
                   /\ s.state.rooms[r].occupants = s0.state.rooms[r].occupants
        /\ \A rid \in DOMAIN HandledCounter :
              s.state.stats[HandledCounter[rid]] =
                  s0.state.stats[HandledCounter[rid]]
                  + (IF rid = agent.currentRoomId THEN 1 ELSE 0)

\* For every agent in service and every dt, updateAgent at the advanced clock
\* releases the agent as described if the clock has reached processingSince +
\* processingDuration, and changes nothing otherwise.
ReleaseFrame ==
    \A dt \in DtSet : \A i \in DOMAIN state.patients :
        state.patients[i].state = "PROCESSING" =>
            \A s0 \in {[This EXCEPT !.state.time = @ + dt]} :
                \A s \in updateAgent(s0, i, dt) :
                    IF s0.state.time >= state.patients[i].processingSince
                                        + state.patients[i].processingDuration
                    THEN Released(s0, s, i)
                    ELSE s = s0

\* C29: an agent in service leaves it in an update exactly when the clock the
\* update sets is >= processingSince + processingDuration, and that
\* transition frees one staff member of its room, removes the agent from the
\* room's occupants, adds one to that station's handled counter, and leaves
\* every other room's staffBusy and occupants unchanged.
C29_ServiceCompletion ==
    /\ []ReleaseFrame
    /\ [][\A i \in DOMAIN state.patients :
             state.patients[i].state = "PROCESSING" =>
                 ((\E j \in DOMAIN state'.patients :
                      /\ state'.patients[j].id = state.patients[i].id
                      /\ state'.patients[j].state = "MOVING")
                  <=> state'.time >= state.patients[i].processingSince
                                     + state.patients[i].processingDuration)]_vars

\* A release has been counted, and of two agents in service in different
\* rooms one falls due at the next update with dt > 0 and none is due at dt = 0.
C29_Witness ==
    /\ \E rid \in DOMAIN HandledCounter : state.stats[HandledCounter[rid]] >= 1
    /\ \E i, j \in DOMAIN state.patients :
          /\ state.patients[i].state = "PROCESSING"
          /\ state.patients[j].state = "PROCESSING"
          /\ state.patients[i].currentRoomId # state.patients[j].currentRoomId
          /\ \E dt \in DtSet :
                state.time + dt >= state.patients[i].processingSince
                                   + state.patients[i].processingDuration
          /\ state.time < state.patients[i].processingSince
                          + state.patients[i].processingDuration

\* C30: every pass through the body of the spawning loop, for every sampled
\* gap, leaves nextArrival strictly greater than the clock, so the loop ends
\* after it; and an update that has spawned leaves nextArrival > clock.
C30_ArrivalProgress ==
    /\ spawnedNow > 0 => nextArrival > state.time
    /\ \A dt \in DtSet : \A s0 \in {[This EXCEPT !.state.time = @ + dt]} :
          (s0.state.time >= s0.nextArrival /\ s0.state.time < config.durationMinutes) =>
              \A k \in UDraws, negLn \in NegLnDraws :
                  /\ spawnJoint(s0, k, negLn).nextArrival > s0.state.time
                  /\ spawnJoint(s0, k, negLn).patientCounter = s0.patientCounter + 2

\* The latest update spawned, the sampled next arrival was not past the clock,
\* and nextArrival was forced to clock + SafetyStep.
C30_Witness ==
    /\ spawnedNow > 0
    /\ instantsNow > spawnedNow
    /\ nextArrival = state.time + SafetyStep

\* The ids of the live agents, in list order
LiveIds == [i \in DOMAIN state.patients |-> state.patients[i].id]

\* C31: agent ids are issued in strictly increasing order of creation and are
\* unique over the whole run and across both clinics: the k-th agent created
\* has id k, the live list (which is in creation order) has strictly
\* increasing ids, a completed agent's id is on no live agent, every update
\* gives the agents it creates the ids from the old counter up to the new one,
\* and the counter never goes down.
C31_AgentIdsUnique ==
    /\ [](/\ patientCounter = Len(journey) + 1
          /\ \A i \in DOMAIN LiveIds :
                /\ LiveIds[i] \in DOMAIN journey
                /\ journey[LiveIds[i]].type = state.patients[i].type
                /\ journey[LiveIds[i]].finished = 0
          /\ \A i, j \in DOMAIN LiveIds : i < j => LiveIds[i] < LiveIds[j])
    /\ [][/\ patientCounter' >= patientCounter
          /\ \A j \in DOMAIN LiveIds' :
                \/ \E i \in DOMAIN LiveIds : LiveIds[i] = LiveIds'[j]
                \/ (patientCounter <= LiveIds'[j] /\ LiveIds'[j] < patientCounter')
          /\ \A id \in patientCounter .. (patientCounter' - 1) :
                \/ \E j \in DOMAIN LiveIds' : LiveIds'[j] = id
                \/ journey'[id].finished > 0]_vars

\* Agents of both clinics are live, the later one with the greater id, while
\* agents of both clinics have completed.
C31_Witness ==
    /\ state.stats.stdFinished >= 1
    /\ state.stats.aiFinished >= 1
    /\ \E i, j \in DOMAIN LiveIds :
          /\ state.patients[i].type = "STANDARD"
          /\ state.patients[j].type # "STANDARD"
          /\ i < j
          /\ LiveIds[j] > LiveIds[i]

\* How often id occurs in seq
Occurrences(seq, id) == Cardinality({k \in DOMAIN seq : seq[k] = id})

\* How often id occurs in the queues, and in the occupants, of all rooms
InQueues(id) ==
    SumOver(DOMAIN state.rooms, [r \in DOMAIN state.rooms |-> Occurrences(state.rooms[r].queue, id)])
InOccupants(id) ==
    SumOver(DOMAIN state.rooms,
            [r \in DOMAIN state.rooms |-> Occurrences(state.rooms[r].occupants, id)])

\* C32: every live agent's id is in at most one station queue, at most once;
\* a WAITING agent is in exactly one queue; a PROCESSING agent is in no queue
\* and is an occupant of the room its currentRoomId names and of no other,
\* once; and every room has as many occupants as staffBusy.
C32_Membership ==
    /\ \A i \in DOMAIN state.patients :
          LET agent == state.patients[i]
          IN  /\ InQueues(agent.id) <= 1
              /\ agent.state = "WAITING" => InQueues(agent.id) = 1
              /\ agent.state = "PROCESSING" =>
                    /\ InQueues(agent.id) = 0
                    /\ InOccupants(agent.id) = 1
                    /\ \E r \in DOMAIN state.rooms :
                          /\ state.rooms[r].id = agent.currentRoomId
                          /\ Contains(state.rooms[r].occupants, agent.id)
    /\ \A r \in DOMAIN state.rooms :
          Len(state.rooms[r].occupants) = state.rooms[r].staffBusy

\* A room serves two agents at once while another agent waits in a queue.
C32_Witness ==
    /\ \E r \in DOMAIN state.rooms :
          state.rooms[r].staffBusy = 2 /\ Len(state.rooms[r].occupants) = 2
    /\ \E i \in DOMAIN state.patients :
          /\ state.patients[i].state = "WAITING"
          /\ InQueues(state.patients[i].id) = 1

\* Was the agent that was `a` before update(dt) and is `b` after it updated
\* once?  It made at most one transition; its wait grew by dt if it was
\* WAITING and not otherwise; it walked speed * dt if it kept MOVING; and it
\* is as it was if it stayed in service.
UpdatedOnce(a, b, dt) ==
    /\ TransitionAllowed(a, b)
    /\ b.totalWaitTime = a.totalWaitTime + (IF a.state = "WAITING" THEN dt ELSE 0)
    /\ (a.state = "MOVING" /\ b.state = "MOVING") =>
          /\ b.position.base = a.position.base
          /\ b.position.moved = a.position.moved + speed * dt
    /\ (a.state = "PROCESSING" /\ b.state = "PROCESSING") => b = a

\* C33: one update call updates every live agent once, and an agent makes at
\* most one transition in it: an agent that was live before is as one
\* updateAgent call leaves it, an agent spawned by the call has walked for dt
\* at most and has not waited, and an agent that a station admitted during
\* the call is in service there at the end of the call, since the new clock.
\* After every update each agent in service has
\* state.time < processingSince + processingDuration.
C33_OneTransitionPerUpdate ==
    /\ [](\A i \in DOMAIN state.patients :
             state.patients[i].state = "PROCESSING" =>
                 state.time < state.patients[i].processingSince
                              + state.patients[i].processingDuration)
    /\ [][\A j \in DOMAIN state'.patients :
             LET b == state'.patients[j]
             IN  /\ \A i \in DOMAIN state.patients :
                       state.patients[i].id = b.id => UpdatedOnce(state.patients[i], b, lastDt')
                 /\ b.id >= patientCounter =>
                       /\ b.totalWaitTime = 0
                       /\ b.state = "MOVING" => b.position.moved = speed * lastDt'
                       /\ b.state \in {"MOVING", "WAITING"}
                 /\ (b.id < patientCounter
                     /\ Len(journey'[b.id].served) > Len(journey[b.id].served)) =>
                       /\ Len(journey'[b.id].served) = Len(journey[b.id].served) + 1
                       /\ b.state = "PROCESSING"
                       /\ b.processingSince = state'.time
                       /\ b.currentRoomId = journey'[b.id].served[Len(journey'[b.id].served)]
         ]_vars

\* The latest update had dt > 0; it admitted one agent to service, and it
\* released another, which has not walked yet.
C33_Witness ==
    /\ lastDt > 0
    /\ \E i, j \in DOMAIN state.patients :
          /\ state.patients[i].state = "PROCESSING"
          /\ state.patients[i].processingSince = state.time
          /\ state.patients[j].state = "MOVING"
          /\ journey[state.patients[j].id].served # <<>>
          /\ state.patients[j].position.moved = 0

\* The logged seizes of resource resName whose service interval
\* [startTime, finishTime) holds the instant at
InServiceAt(resName, at) ==
    {i \in DOMAIN seizeLog : /\ seizeLog[i].res = resName
                             /\ seizeLog[i].startTime <= at
                             /\ at < seizeLog[i].finishTime}

\* C34: of two seizes that were given the same unit of a resource, the later
\* one starts no earlier than the earlier one finishes; at every instant at
\* which a service starts, at most `capacity` services are under way at the
\* resource; and every unit has totalBusyTime <= availableAt.
C34_UnitsNeverOverlap ==
    /\ \A i, j \in DOMAIN seizeLog :
          (/\ i < j
           /\ seizeLog[i].res = seizeLog[j].res
           /\ seizeLog[i].unitIndex = seizeLog[j].unitIndex)
          => seizeLog[j].startTime >= seizeLog[i].finishTime
    /\ \A i \in DOMAIN seizeLog :
          Cardinality(InServiceAt(seizeLog[i].res, seizeLog[i].startTime))
              <= resources[seizeLog[i].res].capacity
    /\ \A resName \in DOMAIN resources :
          \A u \in DOMAIN resources[resName].availableAt :
              resources[resName].totalBusyTime[u] <= resources[resName].availableAt[u]

\* Both units of a resource are in service at one instant, and at another
\* resource a patient had to wait and started when the unit's previous
\* service finished.
C34_Witness ==
    /\ \E i \in DOMAIN seizeLog :
          /\ resources[seizeLog[i].res].capacity = 2
          /\ Cardinality(InServiceAt(seizeLog[i].res, seizeLog[i].startTime)) = 2
    /\ \E i, j \in DOMAIN seizeLog :
          /\ i < j
          /\ seizeLog[i].res = seizeLog[j].res
          /\ seizeLog[i].unitIndex = seizeLog[j].unitIndex
          /\ seizeLog[j].waitTime > 0
          /\ seizeLog[j].startTime = seizeLog[i].finishTime

\* C35: when run() has returned, every patient of the arrival stream has an
\* exit time, and each clinic's throughput is the number of joint arrivals,
\* which is also its totalPatients.
C35_EveryPatientExits ==
    runPc = "done" =>
        /\ \A k \in DOMAIN patients : patients[k].exitTime # NoExit
        /\ \A c \in Clinics :
              /\ result[c].throughput = pId - 1
              /\ result[c].throughput = result[c].totalPatients

\* run() has returned after two joint arrivals, with a patient of each clinic
\* who exited after the horizon.
C35_Witness ==
    /\ runPc = "done"
    /\ result.standard.throughput = 2
    /\ result.ai.throughput = 2
    /\ \E k, m \in DOMAIN patients :
          /\ k > 0
          /\ m < 0
          /\ patients[k].exitTime[1] > simConfig.durationMinutes
          /\ patients[m].exitTime[1] > simConfig.durationMinutes

\* The stage name of the event that ends the service at a resource
StageDone ==
    [ stdReception |-> "RECEPTION_DONE", stdDoctor |-> "DOCTOR_DONE",
      aiKiosks |-> "KIOSK_DONE", aiNurses |-> "TRIAGE_DONE", aiDoctor |-> "DOCTOR_DONE" ]

\* The patient key an event is for
KeyOf(e) == getPatientKey(e.patientId, e.clinicType)

\* The event e is the next one of its patient, given the seizes made for that
\* patient so far (one per event of the patient processed so far): an ARRIVAL
\* if none was processed, otherwise the completion of the stage seized last,
\* at the finish time of that seize and no earlier than the previous event.
NextEventOf(k, e) ==
    LET log == SeizesOf(k)
    IN  /\ k \in DOMAIN patients
        /\ patients[k].exitTime = NoExit
        /\ IF log = <<>>
           THEN e.type = "ARRIVAL" /\ e.time = patients[k].arrivalTime
           ELSE /\ e.type = "SERVICE_COMPLETED"
                /\ log[Len(log)].res = ResourcesOf(patients[k].type)[Len(log)]
                /\ e.stage = StageDone[log[Len(log)].res]
                /\ e.time = log[Len(log)].finishTime
                /\ e.time >= log[Len(log)].now

\* C36: the event list never holds two events of one (clinic, patient); every
\* pending event is the next event of its patient; and each pass of the event
\* loop processes the next event of the patient at the head of the list, which
\* either records the exit or makes the next seize of the route and leaves one
\* pending event for that patient.
C36_OneEventPerPatient ==
    /\ [](/\ \A i, j \in DOMAIN events : KeyOf(events[i]) = KeyOf(events[j]) => i = j
          /\ \A i \in DOMAIN events : NextEventOf(KeyOf(events[i]), events[i]))
    /\ [][(runPc = "events" /\ runPc' = "events") =>
             \A e \in {Head(events)} : \A k \in {KeyOf(e)} :
             LET pending == {i \in DOMAIN events' : KeyOf(events'[i]) = k}
             IN  /\ currentTime' = e.time
                 /\ IF e.type = "SERVICE_COMPLETED" /\ e.stage = "DOCTOR_DONE"
                    THEN /\ patients'[k].exitTime = <<e.time>>
                         /\ SeizesOf(k)' = SeizesOf(k)
                         /\ pending = {}
                    ELSE /\ Len(SeizesOf(k)') = Len(SeizesOf(k)) + 1
                         /\ SeizesOf(k)'[Len(SeizesOf(k)')].now = e.time
                         /\ Cardinality(pending) = 1
         ]_vars

\* The event loop is under way with pending events of three patients, one of
\* them an arrival and one the completion of a second stage.
C36_Witness ==
    /\ runPc = "events"
    /\ Cardinality({KeyOf(events[i]) : i \in DOMAIN events}) >= 3
    /\ \E i \in DOMAIN events : events[i].type = "ARRIVAL"
    /\ \E i \in DOMAIN events :
          /\ events[i].type = "SERVICE_COMPLETED"
          /\ Len(SeizesOf(KeyOf(events[i]))) >= 2

\* The counters of state.stats that count agents
CountingStats ==
    { "stdFinished", "aiFinished", "stdReceptionHandled", "stdDoctorHandled",
      "aiKioskHandled", "aiTriageHandled", "aiDoctorHandled" }

\* C37: stdFinished <= stdDoctorHandled <= stdReceptionHandled <= Standard
\* agents spawned; aiFinished <= aiDoctorHandled <= aiTriageHandled <= AI
\* agents spawned; aiKioskHandled <= AI_WALK_IN agents spawned; and no
\* counter ever decreases.
C37_CounterOrdering ==
    /\ [](/\ state.stats.stdFinished <= state.stats.stdDoctorHandled
          /\ state.stats.stdDoctorHandled <= state.stats.stdReceptionHandled
          /\ state.stats.stdReceptionHandled <= created["STANDARD"]
          /\ state.stats.aiFinished <= state.stats.aiDoctorHandled
          /\ state.stats.aiDoctorHandled <= state.stats.aiTriageHandled
          /\ state.stats.aiTriageHandled <= created["AI_WALK_IN"] + created["AI_DIGITAL"]
          /\ state.stats.aiKioskHandled <= created["AI_WALK_IN"])
    /\ [][/\ \A f \in CountingStats : state'.stats[f] >= state.stats[f]
          /\ \A ty \in PatientTypes : created'[ty] >= created[ty]]_vars

\* A standard agent has finished while another has left reception but not the
\* doctor, and an AI agent has been through the kiosk.
C37_Witness ==
    /\ state.stats.stdFinished = 1
    /\ state.stats.stdDoctorHandled = 1
    /\ state.stats.stdReceptionHandled = 2
    /\ state.stats.aiKioskHandled >= 1
    /\ state.stats.aiTriageHandled > state.stats.aiDoctorHandled

\* The rooms and the resources of the standard clinic
StdRooms == {"std_checkin_wait", "std_reception", "std_main_wait", "std_doctor"}
StdResources == {"stdReception", "stdDoctor"}

\* C38: the two clinics are isolated.  In the batch engine a pass of the event
\* loop that processes an event of one clinic leaves the resources and the
\* patient records of the other clinic unchanged.  In the continuous engine
\* the agents that were ever queued at or admitted to a room, and the agents
\* in its queue and occupants now, are STANDARD agents at a std_ room and AI
\* agents at an ai_ room.
C38_ClinicIsolation ==
    /\ [](\A r \in DOMAIN state.rooms :
             LET rid == state.rooms[r].id
                 seen == {state.rooms[r].queue[n] : n \in DOMAIN state.rooms[r].queue}
                         \cup {state.rooms[r].occupants[n] : n \in DOMAIN state.rooms[r].occupants}
                         \cup {enqueued[rid][n] : n \in DOMAIN enqueued[rid]}
                         \cup {admitted[rid][n] : n \in DOMAIN admitted[rid]}
             IN  \A id \in seen :
                    /\ id \in DOMAIN journey
                    /\ (journey[id].type = "STANDARD") <=> (rid \in StdRooms))
    /\ [][(runPc = "events" /\ runPc' = "events") =>
             \A e \in {Head(events)} :
                /\ \A resName \in DOMAIN resources :
                      ((resName \in StdResources) # (e.clinicType = "STANDARD"))
                      => resources'[resName] = resources[resName]
                /\ \A k \in DOMAIN patients :
                      ((patients[k].type = "STANDARD") # (e.clinicType = "STANDARD"))
                      => (k \in DOMAIN patients' /\ patients'[k] = patients[k])
         ]_vars

\* The continuous engine has agents in service in both clinics, with an agent
\* of each clinic queued.
C38_TickCase ==
    /\ \E r \in DOMAIN state.rooms :
          state.rooms[r].id \in StdRooms /\ state.rooms[r].occupants # <<>>
    /\ \E r \in DOMAIN state.rooms :
          state.rooms[r].id \notin StdRooms /\ state.rooms[r].occupants # <<>>
    /\ \E r \in DOMAIN state.rooms :
          state.rooms[r].id \in StdRooms /\ state.rooms[r].queue # <<>>
    /\ \E r \in DOMAIN state.rooms :
          state.rooms[r].id \notin StdRooms /\ state.rooms[r].queue # <<>>

\* The batch engine has processed events of both clinics up to both doctors,
\* the latest one an AI event, with events of both clinics pending.
C38_BatchCase ==
    /\ runPc = "events"
    /\ \E i \in DOMAIN seizeLog : seizeLog[i].res = "stdDoctor"
    /\ seizeLog # <<>>
    /\ seizeLog[Len(seizeLog)].res = "aiDoctor"
    /\ \E i, j \in DOMAIN events :
          events[i].clinicType = "STANDARD" /\ events[j].clinicType = "AI"

\* Either engine has both clinics at work.
C38_Witness == C38_TickCase \/ C38_BatchCase

\* The patient ids and the clinics the key is computed for
KeyIds == 1 .. MaxTime
ClinicTypes == {"STANDARD", "AI"}

====
